---- MODULE Spec2Model ----
(***************************************************************************)
(* A model of modal/app.py: the _App lifecycle (run / deploy), the object  *)
(* creation phase and the reference lookup, together with the backend the  *)
(* client talks to; and of modal/_output_capture.py: a capture session and *)
(* its worker.  Coroutines are modelled as tasks that interleave only at   *)
(* their awaits: every action is the code between two suspension points.   *)
(* Registration (app[tag] = obj, function()) is synchronous: it is a step  *)
(* of its own that can come between any two others; only the value app[tag] *)
(* handed to function() depends on the state (__getitem__).                *)
(* The capture worker is a thread: it interleaves with every step of the   *)
(* session, and so does each call it makes of the callback.                *)
(***************************************************************************)
EXTENDS Integers, Sequences, FiniteSets, TLC

\* ------------------------------------------------------------------ bounds
\* most objects a Blueprint holds
MaxTags == 4
\* most run/deploy calls made in one behaviour
MaxCalls == 2
\* most lookup/include calls a caller makes between two calls of run
MaxLookups == 1

\* ------------------------------------------------------------ plain values
\* Python's None (identities, names and client references are strings)
None == "None"

\* the coroutines that call run/deploy on the one App value
Tasks == {"t1", "t2"}

\* AppState
NONE == "NONE"
STARTING == "STARTING"
RUNNING == "RUNNING"
STOPPING == "STOPPING"

\* api_pb2.DEPLOYMENT_NAMESPACE_*
NS_ACCOUNT == "ACCOUNT"
NS_GLOBAL == "GLOBAL"

\* str.startswith
StartsWith(s, prefix) ==
    /\ Len(s) >= Len(prefix)
    /\ SubSeq(s, 1, Len(prefix)) = prefix

\* dict.get(key): the value, or None for a missing key
Get(d, key) == IF key \in DOMAIN d THEN d[key] ELSE None

\* the dict d with d[key] = value
Put(d, key, value) ==
    [k \in (DOMAIN d) \cup {key} |-> IF k = key THEN value ELSE d[k]]

\* the empty dict
EmptyDict == <<>>

\* ------------------------------------------------- objects to be registered
\* An object: a function (identity-stable; its load resolves the same-app
\* references it holds, by tag; live: the identity of the live object it
\* was given for its image, if it was given one), an image
\* (content-addressed), a mount, a reference (an object with a label: to an
\* object of another app when the label has an app name, to a tag of this
\* app otherwise), or a live object (Object.from_id: an identity, no label).
FunctionSpec(deps) ==
    [kind |-> "function", deps |-> deps, content |-> None, live |-> None,
     app_name |-> None, object_label |-> None, namespace |-> NS_ACCOUNT]
ImageSpec(content) ==
    [kind |-> "image", deps |-> {}, content |-> content, live |-> None,
     app_name |-> None, object_label |-> None, namespace |-> NS_ACCOUNT]
MountSpec ==
    [kind |-> "mount", deps |-> {}, content |-> None, live |-> None,
     app_name |-> None, object_label |-> None, namespace |-> NS_ACCOUNT]
RefSpec(app_name, object_label, namespace) ==
    [kind |-> "ref", deps |-> {}, content |-> None, live |-> None,
     app_name |-> app_name, object_label |-> object_label, namespace |-> namespace]
LiveObject(object_id) ==
    [kind |-> "live", deps |-> {}, content |-> None, live |-> object_id,
     app_name |-> None, object_label |-> None, namespace |-> NS_ACCOUNT]
\* Python's None where an object is expected
NoObject ==
    [kind |-> "none", deps |-> {}, content |-> None, live |-> None,
     app_name |-> None, object_label |-> None, namespace |-> NS_ACCOUNT]

\* MODAL_CLIENT_MOUNT_NAME
ClientMountName == "modal-client-mount"

\* The objects the program makes, each for the tag it is registered under.
\* Set by the caller with app[tag] = obj: the image "img", the function
\* "fu-g", whose tag begins with "fu-", and "alias", a reference to the tag
\* "img" of this app (what app["img"] gave outside a run).  Registered by
\* function() next to the function: the default image "_image" and the mount
\* "pkg" of the package the decorated functions are defined in.
Catalogue ==
    [tag \in {"fu-g", "img", "alias", "_image", "pkg"} |->
        CASE tag = "fu-g" -> FunctionSpec({})
          [] tag = "img" -> ImageSpec("c1")
          [] tag = "alias" -> RefSpec(None, "img", NS_ACCOUNT)
          [] tag = "_image" -> ImageSpec("slim")
          [] tag = "pkg" -> MountSpec]

\* the tags the caller sets with app[tag] = obj
SetItemTags == {"img", "fu-g", "alias"}

\* The calls of function() the caller makes, app.function(sq,
\* image=app["img"]) and app.function(cube): the function's tag, which is
\* its qualified name, the tag the image argument is read with (None: no
\* image is given) and the keys of the mounts FunctionInfo finds.
FunctionCalls ==
    [f \in {"sq", "cube"} |->
        [image |-> IF f = "sq" THEN "img" ELSE None, mounts |-> <<"pkg">>]]

\* config["sync_entrypoint"]
SyncEntrypoint == BOOLEAN

\* An object handed to lookup: it has no label at all, or a label with an
\* app name, an object label and a namespace.
Unlabelled ==
    [labelled |-> FALSE, app_name |-> None, object_label |-> None, namespace |-> NS_ACCOUNT]
Label(app_name, object_label, namespace) ==
    [labelled |-> TRUE, app_name |-> app_name, object_label |-> object_label,
     namespace |-> namespace]

\* The references the caller resolves: an object without a label, labels
\* with neither an app name nor an object label (None or empty), same-app
\* labels, a published object of another app and the default object of an
\* app that publishes none.
References ==
    [r \in {"unlabelled", "nothing", "empty", "img", "fu-g", "lib.m", "lib"} |->
        CASE r = "unlabelled" -> Unlabelled
          [] r = "nothing" -> Label(None, None, NS_ACCOUNT)
          [] r = "empty" -> Label("", "", NS_ACCOUNT)
          [] r = "img" -> Label(None, "img", NS_ACCOUNT)
          [] r = "fu-g" -> Label(None, "fu-g", NS_ACCOUNT)
          [] r = "lib.m" -> Label("lib", "m", NS_GLOBAL)
          [] r = "lib" -> Label("lib", None, NS_ACCOUNT)]

\* the references include can be called with: it takes an app name
IncludeArgs == {r \in DOMAIN References : References[r].app_name \notin {None, ""}}

\* sys.argv as _infer_app_name joins it
InferredName == "script.py"
\* the names given to App(name=...) and to deploy(name=...)
AppNames == {None, "foo_app"}
DeployNames == {None, "bar_app"}
Namespaces == {NS_ACCOUNT}

VARIABLES
    \* _App fields
    state, client, app_id, deployment_name, name_,
    tag_to_object, tag_to_existing_id, progress, blueprint,
    \* the backend
    n_apps, n_objects, deployed_apps, app_objects,
    \* the calling coroutines
    pc, task, result,
    \* the requests each call in progress has issued, the calls made so far
    requests, ncalls,
    \* a capture session (thread_capture): the caller's position (pc), whether
    \* the stream is a terminal, the text the caller writes and how much of it
    \* is written, the stream's buffer, the bytes in the pty or pipe, the text
    \* that reached the original destination, where the stream's descriptor
    \* points, which ends of the pair are open, the steps of the teardown so
    \* far, the exception the session ends with
    session,
    \* the capture worker: its position (pc), the retained partial line, the
    \* decoder's pending bytes, the callback invocations, whether one of its
    \* reads ended inside a multi-byte sequence
    worker

app_vars == <<state, client, app_id, deployment_name, name_,
              tag_to_object, tag_to_existing_id, progress, blueprint>>
srv_vars == <<n_apps, n_objects, deployed_apps, app_objects>>
call_vars == <<pc, task, result, requests, ncalls>>
cap_vars == <<session, worker>>
vars == <<state, client, app_id, deployment_name, name_,
          tag_to_object, tag_to_existing_id, progress, blueprint,
          n_apps, n_objects, deployed_apps, app_objects,
          pc, task, result, requests, ncalls, session, worker>>

\* --------------------------------------------------------------- backend
\* The remote service (its implementation is not part of the client): it
\* numbers applications and objects, keeps each application's published
\* tag -> identity map and the deployments bound to a name and namespace.

\* identities: "ap-1", "qu-2", ...; an image's identity is its content hash
AppId(n) == "ap-" \o ToString(n)
KindPrefix(kind) ==
    CASE kind = "image" -> "im-"
      [] kind = "mount" -> "mo-"
      [] OTHER -> "fu-"
FreshId(kind, n) == KindPrefix(kind) \o ToString(n)
ImageId(content) == "im-" \o content

\* objects other applications have published: (app name, label, namespace)
PublishedObjects ==
    [k \in {<<"lib", "m", NS_GLOBAL>>, <<ClientMountName, None, NS_GLOBAL>>} |->
        IF k[1] = "lib" THEN "mo-9" ELSE "mo-8"]

\* AppIncludeObject: the identity, or "" when nothing is published there
\* (how = "missing": the publishing application is gone)
IncludeObjectResponse(name, object_label, namespace, how) ==
    IF how = "found" /\ <<name, object_label, namespace>> \in DOMAIN PublishedObjects
    THEN PublishedObjects[<<name, object_label, namespace>>]
    ELSE ""

\* AppGetByDeploymentName: the application bound to the name, or ""
GetByDeploymentNameResponse(name, namespace) ==
    IF <<name, namespace>> \in DOMAIN deployed_apps
    THEN deployed_apps[<<name, namespace>>]
    ELSE ""

\* AppGetObjects: the map last published for the application
GetObjectsResponse(id) == IF id \in DOMAIN app_objects THEN app_objects[id] ELSE EmptyDict

\* The identity a create request yields.  An image is content-addressed; any
\* other object keeps the existing identity it is created with when that is
\* an identity of its kind, and gets a fresh one otherwise.  how = "fresh"
\* is a backend that does not keep the existing identity, how = "null" one
\* that answers without an identity.
CreateObjectResponse(spec, existing_object_id, how) ==
    CASE how = "null" -> None
      [] spec.kind = "image" -> ImageId(spec.content)
      [] how = "keep" /\ existing_object_id # None
            /\ StartsWith(existing_object_id, KindPrefix(spec.kind)) -> existing_object_id
      [] OTHER -> FreshId(spec.kind, n_objects + 1)

\* ------------------------------------------------------------- _App, pure
\* _App.name: the configured name, or else the inferred one
AppName(configured) ==
    IF configured # None /\ configured # "" THEN configured ELSE InferredName

\* deploy: the name the deployment is made under
DeploymentName(name, configured) == IF name = None THEN AppName(configured) ELSE name

\* deploy: no name to deploy under
NoDeploymentName(name) == name = None

\* Faulty variant: a call is also let in while the previous run is stopping
CanStartWhileStopping(s) == s \in {NONE, STOPPING}

\* _run / deploy: the App may be started
CanStart(s) == s = NONE

\* _create_all_objects: the sort key of a tag
SortKey(tag) == StartsWith(tag, "fu-")

\* list.sort(key=...) on booleans is stable: the tags whose key is False in
\* their order, then those whose key is True in theirs
RECURSIVE Filter(_, _)
Filter(seq, keep) ==
    IF seq = <<>> THEN <<>>
    ELSE (IF SortKey(Head(seq)) = keep THEN <<Head(seq)>> ELSE <<>>) \o Filter(Tail(seq), keep)

\* Faulty variant: only the tags moved last are created
CreationOrderLastOnly(bp) == Filter(bp, TRUE)

\* _create_all_objects: the order the tags are created in
CreationOrder(bp) == Filter(bp, FALSE) \o Filter(bp, TRUE)

\* Faulty variant: any returned identity is let through
MismatchAlwaysTolerated(existing_object_id) == TRUE

\* _create_object: a returned identity that differs from the existing one is let through
MismatchTolerated(existing_object_id) == StartsWith(existing_object_id, "im-")

\* Faulty variant: an answer without an identity is let through
LoadCheckMismatchOnly(existing_object_id, object_id) ==
    IF existing_object_id # None /\ object_id # existing_object_id
          /\ ~MismatchTolerated(existing_object_id)
    THEN "Exception(mismatch)"
    ELSE None

\* Faulty variant: the identity is tested for None only when no mismatch
\* was found
LoadCheckNoneElse(existing_object_id, object_id) ==
    IF existing_object_id # None /\ object_id # existing_object_id
    THEN (IF ~MismatchTolerated(existing_object_id) THEN "Exception(mismatch)" ELSE None)
    ELSE IF object_id = None THEN "Exception(None id)" ELSE None

\* _create_object: the check of what obj.load returned; the exception raised, or None
LoadCheck(existing_object_id, object_id) ==
    IF existing_object_id # None /\ object_id # existing_object_id
          /\ ~MismatchTolerated(existing_object_id)
    THEN "Exception(mismatch)"
    ELSE IF object_id = None THEN "Exception(None id)" ELSE None

\* Faulty variant: the existing identities are never taken over
ExistingIdsDropped(existing_app_id, object_ids) == EmptyDict

\* Faulty variant: the application identity of the last run is kept when there is one
AcquiredAppIdKept(existing_app_id, created_app_id) ==
    IF existing_app_id # None THEN existing_app_id
    ELSE IF app_id # None THEN app_id ELSE created_app_id

\* _run: the application identity of the run, the existing one or the one
\* AppCreate answered
AcquiredAppId(existing_app_id, created_app_id) ==
    IF existing_app_id # None THEN existing_app_id ELSE created_app_id

\* _run: the existing identities kept for the creation phase, from the
\* AppGetObjects response when an existing application is resumed
ExistingIds(existing_app_id, object_ids) ==
    IF existing_app_id # None THEN object_ids ELSE EmptyDict

\* Faulty variant: only a response without the field counts as not found
IncludeCheckNone(object_id) == IF object_id = None THEN "NotFoundError" ELSE None

\* _include: the check of the response; the exception raised, or None
IncludeCheck(object_id) == IF object_id = "" THEN "NotFoundError" ELSE None

\* Faulty variant: only an object without a label is rejected
LookupCheckLabelOnly(ref) == IF ~ref.labelled THEN "InvalidError" ELSE None

\* lookup: the usage error raised before anything is resolved, or None
\* (not x holds of None and of the empty string)
LookupCheck(ref) ==
    IF ~ref.labelled THEN "InvalidError"
    ELSE IF ref.app_name \in {None, ""} /\ ref.object_label \in {None, ""}
    THEN "InvalidError"
    ELSE None

\* lookup of the live object a function holds, by its load: the exception
\* raised, or None (Object.from_id gives an object without a label)
HeldCheck(obj) == IF obj.live # None THEN LookupCheck(Unlabelled) ELSE None

\* lookup: the reference is to a different app
CrossApp(ref) == ref.app_name # None

\* lookup of a same-app reference: the tag has a live object
LookupFound(tto, object_label) == object_label \in DOMAIN tto

\* the identities a function's load looks up, by tag
LookupAll(tto, deps) == [d \in deps |-> tto[d]]

\* Faulty variant: the existing identities are published, not the live ones
ObjectIdsExisting(tto) == [tag \in DOMAIN tto |-> Get(tag_to_existing_id, tag)]

\* AppSetObjectsRequest.object_ids
ObjectIds(tto) == [tag \in DOMAIN tto |-> tto[tag]]

\* ---------------------------------------------------------------- tasks
\* A call's locals: the operation, deploy's name argument and the name it
\* resolved, the namespace and client, _run's existing_app_id, the loop of
\* _create_all_objects (tags, i), the exception on its way to the caller,
\* whether _run passed its start check, and what each creation returned;
\* the lookup/include calls made, the reference of the last one, the
\* branch it took and the identity of the response to it.
IdleTask ==
    [op |-> None, name_arg |-> None, name |-> None, namespace |-> NS_ACCOUNT,
     client |-> None, existing_app_id |-> None, tags |-> <<>>, i |-> 0, exc |-> None,
     entered |-> FALSE, returned |-> EmptyDict,
     lookups |-> 0, ref |-> None, branch |-> None, response |-> None]

Request(rpc, id, tag, object_id, object_ids) ==
    [rpc |-> rpc, app_id |-> id, tag |-> tag, object_id |-> object_id, object_ids |-> object_ids]

Send(t, req) == requests' = [requests EXCEPT ![t] = Append(@, req)]

\* Blueprint: the registered objects in the order of their registration,
\* each with its tag
Entry(tag, obj) == [tag |-> tag, obj |-> obj]

\* Blueprint.has_object
HasObject(bp, tag) == \E k \in 1..Len(bp) : bp[k].tag = tag

\* Blueprint.get_object
GetObject(bp, tag) == bp[CHOOSE k \in 1..Len(bp) : bp[k].tag = tag].obj

\* the tags of Blueprint.get_objects(), in its order
Tags(bp) == [k \in 1..Len(bp) |-> bp[k].tag]

BlueprintTags == {blueprint[k].tag : k \in 1..Len(blueprint)}

\* no capture session yet, of a stream that is a terminal or not and a
\* caller that will write the text s: the stream's descriptor is its
\* original destination.  (reused, foreign: once read_fd is closed its
\* number may come to name another file of the process, with these bytes.)
NoSession(tty, s) ==
    [pc |-> "none", isatty |-> tty, text |-> s, written |-> 0, stream_buf |-> <<>>,
     pipe |-> <<>>, orig_out |-> <<>>, fd_target |-> "orig", write_open |-> FALSE,
     read_open |-> FALSE, teardown |-> <<>>, exc |-> None,
     reused |-> FALSE, foreign |-> <<>>]
\* capture_thread's locals buf and chunks (pending: the lines of chunks not
\* yet given to the callback, rest: chunks[-1]) and the decoder's held-back
\* bytes; what the callback was called with, the bytes os.read returned,
\* whether a read ended inside a code point, whether a read returned bytes
\* of another file, the error a read failed with and the exception
\* capture_thread ended with
NoWorker ==
    [pc |-> "none", buf |-> <<>>, decoder |-> <<>>, pending |-> <<>>, rest |-> <<>>,
     calls |-> <<>>, raw |-> <<>>, split |-> FALSE, strayed |-> FALSE, errno |-> None,
     exc |-> None]

\* the App after construction, but for its name; the backend without
\* applications
AppInit ==
    /\ state = NONE
    /\ client = None
    /\ app_id = None
    /\ deployment_name = None
    /\ tag_to_object = EmptyDict
    /\ tag_to_existing_id = EmptyDict
    /\ progress = None
    /\ blueprint = <<>>
    /\ n_apps = 0
    /\ n_objects = 0
    /\ deployed_apps = EmptyDict
    /\ app_objects = EmptyDict
    /\ pc = [t \in Tasks |-> "idle"]
    /\ task = [t \in Tasks |-> IdleTask]
    /\ result = <<>>
    /\ requests = [t \in Tasks |-> <<>>]
    /\ ncalls = 0

\* App(): no name is given
Init ==
    /\ AppInit
    /\ name_ = None
    /\ session = NoSession(FALSE, <<>>)
    /\ worker = NoWorker

Last(seq) == seq[Len(seq)]

\* the client a task passes to run/deploy
ClientOf(t) == "cl-" \o t

\* ------------------------------------------------------------ _App, steps
\* control returns to the caller of run/deploy, with a value or an exception
Return(t, res) ==
    /\ pc' = [pc EXCEPT ![t] = "idle"]
    /\ task' = [task EXCEPT ![t] = IdleTask]
    /\ result' = <<t, res>>
    /\ requests' = [requests EXCEPT ![t] = <<>>]

\* Faulty variant: the reset leaves the live objects of the run in place
FinallyResetKeepsObjects ==
    /\ client' = None
    /\ state' = NONE
    /\ progress' = None
    /\ tag_to_object' = tag_to_object

\* _run, outer finally
FinallyReset ==
    /\ client' = None
    /\ state' = NONE
    /\ progress' = None
    /\ tag_to_object' = EmptyDict

\* Faulty variant: the disconnect is sent after the body instead of in a finally
\* block: it goes out only when no exception is on its way
DisconnectUnlessRaised(t, tk, id, exc) ==
    /\ requests' = [requests EXCEPT ![t] =
          IF exc = None
          THEN Append(@, Request("AppClientDisconnect", id, None, None, EmptyDict))
          ELSE @]
    /\ pc' = [pc EXCEPT ![t] = "disconnect"]
    /\ task' = [task EXCEPT ![t] = [tk EXCEPT !.exc = exc]]

\* _run, inner finally: the disconnect request goes out and is awaited;
\* exc is the exception on its way to the caller, or None
Disconnect(t, tk, id, exc) ==
    /\ Send(t, Request("AppClientDisconnect", id, None, None, EmptyDict))
    /\ pc' = [pc EXCEPT ![t] = "disconnect"]
    /\ task' = [task EXCEPT ![t] = [tk EXCEPT !.exc = exc]]

\* _create_all_objects from iteration k on, up to the next await, with the
\* live objects tto, the existing identities ex and the application id:
\* the include or load of tags[k] is awaited, or a lookup of the function's
\* load fails (of the live object it holds, which has no label, or of a tag
\* without a live object), or the loop is over and AppSetObjects is awaited
CreateFrom(t, tk, k, tto, ex, id) ==
    /\ tag_to_object' = tto
    /\ IF k > Len(tk.tags)
       THEN /\ Send(t, Request("AppSetObjects", id, None, None, ObjectIds(tto)))
            /\ pc' = [pc EXCEPT ![t] = "set_objects"]
            /\ task' = [task EXCEPT ![t] = [tk EXCEPT !.i = k]]
       ELSE LET tag == tk.tags[k]
                obj == GetObject(blueprint, tag)
                existing_object_id == Get(ex, tag)
            IN  IF obj.kind = "ref"
                THEN /\ Send(t, Request("AppIncludeObject", id, tag, None, EmptyDict))
                     /\ pc' = [pc EXCEPT ![t] = "include"]
                     /\ task' = [task EXCEPT ![t] = [tk EXCEPT !.i = k]]
                ELSE IF HeldCheck(obj) # None
                THEN Disconnect(t, [tk EXCEPT !.i = k], id, HeldCheck(obj))
                ELSE IF \A d \in obj.deps : LookupFound(tto, d)
                THEN /\ Send(t, Request("CreateObject", id, tag, existing_object_id,
                                        LookupAll(tto, obj.deps)))
                     /\ pc' = [pc EXCEPT ![t] = "load"]
                     /\ task' = [task EXCEPT ![t] = [tk EXCEPT !.i = k]]
                ELSE Disconnect(t, [tk EXCEPT !.i = k], id, "KeyError")

\* Faulty variant: the start check is made inside the try block whose
\* finally resets the App
StartRefusedInTry(t) ==
    /\ FinallyReset
    /\ Return(t, "Exception(start)")
    /\ UNCHANGED <<app_id, deployment_name, name_, tag_to_existing_id, blueprint, srv_vars>>

\* _run: the start check raises ahead of both try blocks
StartRefused(t) ==
    /\ Return(t, "Exception(start)")
    /\ UNCHANGED <<app_vars, srv_vars>>

\* _run from its first line to its first await
EnterRun(t, tk) ==
    IF ~CanStart(state)
    THEN StartRefused(t)
    ELSE /\ state' = STARTING
         /\ client' = tk.client
         /\ Send(t, Request(IF tk.existing_app_id # None THEN "AppGetObjects" ELSE "AppCreate",
                            tk.existing_app_id, None, None, EmptyDict))
         /\ pc' = [pc EXCEPT ![t] = "acquire"]
         /\ task' = [task EXCEPT ![t] = [tk EXCEPT !.entered = TRUE]]
         /\ result' = <<>>
         /\ UNCHANGED <<app_id, deployment_name, name_, tag_to_object, tag_to_existing_id,
                        progress, blueprint, srv_vars>>

\* ---------------------------------------------------------------- actions
\* a call is in progress or can still be made
Observable == ncalls < MaxCalls \/ \E t \in Tasks : pc[t] # "idle"

\* __setitem__: the exception raised for an object whose label has no app
\* name, or None
SetItemCheck(obj) ==
    IF obj.kind = "ref" /\ obj.app_name \in {None, ""}
    THEN "Exception(reference)"
    ELSE None

\* `if not self._blueprint.has_object(tag): self._blueprint.register(tag, obj)`
AddIfAbsent(bp, tag, obj) ==
    IF HasObject(bp, tag) THEN bp ELSE Append(bp, Entry(tag, obj))

\* _get_function_mounts: `for key, mount in info.get_mounts().items()`
RECURSIVE AddAllIfAbsent(_, _)
AddAllIfAbsent(bp, tags) ==
    IF tags = <<>> THEN bp
    ELSE AddAllIfAbsent(AddIfAbsent(bp, Head(tags), Catalogue[Head(tags)]), Tail(tags))

\* __getitem__ in the state s with the live objects tto: the live object of
\* the tag, or None, in state RUNNING; a reference to the tag otherwise
GetItem(s, tto, tag) ==
    IF s = RUNNING
    THEN (IF tag \in DOMAIN tto THEN LiveObject(tto[tag]) ELSE NoObject)
    ELSE RefSpec(None, tag, NS_ACCOUNT)

\* _get_function_mounts: the client mount registered, a mount to create or
\* a reference to the published one
ClientMount(sync_entrypoint) ==
    IF sync_entrypoint THEN MountSpec ELSE RefSpec(ClientMountName, None, NS_GLOBAL)

\* _Function(raw_f, image=image, mounts=mounts): the image is a reference to
\* a tag, the default image, which is registered as "_image", or a live
\* object; the mounts are references to their tags
FunctionObject(image, mounts) ==
    [FunctionSpec((CASE image.kind = "ref" -> {image.object_label}
                     [] image.kind = "image" -> {"_image"}
                     [] OTHER -> {})
                  \cup {"_client_mount"} \cup {mounts[k] : k \in 1..Len(mounts)})
        EXCEPT !.live = image.live]

\* function(): the Blueprint after the call made in the state s with the
\* live objects tto: the default image when the image argument is None, the
\* client mount, the function's mounts, the function
FunctionRegistered(bp, f, s, tto, sync_entrypoint) ==
    LET call == FunctionCalls[f]
        argument == IF call.image = None THEN NoObject ELSE GetItem(s, tto, call.image)
        with_image == IF argument.kind = "none"
                      THEN AddIfAbsent(bp, "_image", Catalogue["_image"])
                      ELSE bp
        image == IF argument.kind = "none" THEN GetObject(with_image, "_image") ELSE argument
        with_mounts == AddAllIfAbsent(AddIfAbsent(with_image, "_client_mount",
                                                  ClientMount(sync_entrypoint)),
                                      call.mounts)
    IN  Append(with_mounts, Entry(f, FunctionObject(image, call.mounts)))

\* app[tag] = obj.  Nothing in it looks at the state of the App: objects are
\* registered before a run, between runs and, by the body of a run or by
\* another coroutine, during one.  (A registration made when no call is in
\* progress and none can follow is left out, and so is one under a tag that
\* is taken.)
Register(tag) ==
    /\ UNCHANGED cap_vars
    /\ Observable
    /\ Len(blueprint) < MaxTags
    /\ tag \notin BlueprintTags
    /\ IF SetItemCheck(Catalogue[tag]) # None
       THEN /\ result' = <<None, SetItemCheck(Catalogue[tag])>>
            /\ UNCHANGED blueprint
       ELSE /\ blueprint' = Append(blueprint, Entry(tag, Catalogue[tag]))
            /\ UNCHANGED result
    /\ UNCHANGED <<state, client, app_id, deployment_name, name_, tag_to_object,
                   tag_to_existing_id, progress, srv_vars, pc, task, requests,
                   ncalls>>

\* app.function(f, image=...), at any time like app[tag] = obj; the image
\* argument is read in the state the call is made in, and the setting
\* config["sync_entrypoint"] is read by the call that finds no client mount
\* registered, so once for an App: it is an input of that call
RegisterFunction(f, sync_entrypoint) ==
    /\ UNCHANGED cap_vars
    /\ Observable
    /\ f \notin BlueprintTags
    /\ \E bp \in {FunctionRegistered(blueprint, f, state, tag_to_object, sync_entrypoint)} :
          /\ Len(bp) <= MaxTags
          /\ blueprint' = bp
    /\ UNCHANGED <<state, client, app_id, deployment_name, name_, tag_to_object,
                   tag_to_existing_id, progress, srv_vars, pc, task, result, requests,
                   ncalls>>

\* The tasks are interchangeable: the one that calls while no other call is
\* in progress is named t1; t2 calls while a call of t1 is in progress.
Caller == "t1"
MayCall(t) == t = Caller \/ pc[Caller] # "idle"

\* run(client)
CallRun(t) ==
    /\ UNCHANGED cap_vars
    /\ pc[t] = "idle"
    /\ MayCall(t)
    /\ ncalls < MaxCalls
    /\ ncalls' = ncalls + 1
    /\ EnterRun(t, [IdleTask EXCEPT !.op = "run", !.client = ClientOf(t)])

\* deploy(name, namespace, client) up to the deployment lookup
CallDeploy(t, name, namespace) ==
    /\ UNCHANGED cap_vars
    /\ pc[t] = "idle"
    /\ MayCall(t)
    /\ ncalls < MaxCalls
    /\ ncalls' = ncalls + 1
    /\ IF ~CanStart(state) \/ NoDeploymentName(DeploymentName(name, name_))
       THEN /\ Return(t, "InvalidError")
            /\ UNCHANGED <<app_vars, srv_vars>>
       ELSE /\ deployment_name' = DeploymentName(name, name_)
            /\ Send(t, Request("AppGetByDeploymentName", None,
                               DeploymentName(name, name_), namespace, EmptyDict))
            /\ pc' = [pc EXCEPT ![t] = "deploy_lookup"]
            /\ task' = [task EXCEPT ![t] =
                  [IdleTask EXCEPT !.op = "deploy", !.name_arg = name,
                                   !.name = DeploymentName(name, name_),
                                   !.namespace = namespace, !.client = ClientOf(t)]]
            /\ result' = <<>>
            /\ UNCHANGED <<state, client, app_id, name_, tag_to_object, tag_to_existing_id,
                           progress, blueprint, srv_vars>>

\* AppGetByDeploymentName answers; deploy goes on into _run
DeployLookupResponse(t, ok) ==
    /\ UNCHANGED cap_vars
    /\ pc[t] = "deploy_lookup"
    /\ UNCHANGED ncalls
    /\ IF ok
       THEN LET resp == GetByDeploymentNameResponse(task[t].name, task[t].namespace)
            IN  EnterRun(t, [task[t] EXCEPT !.existing_app_id = IF resp = "" THEN None ELSE resp])
       ELSE /\ Return(t, "RpcError")
            /\ UNCHANGED <<app_vars, srv_vars>>

\* AppGetObjects or AppCreate answers; the creation loop starts
AcquireResponse(t, ok) ==
    /\ UNCHANGED cap_vars
    /\ pc[t] = "acquire"
    /\ UNCHANGED <<deployment_name, name_, blueprint, n_objects, deployed_apps, app_objects,
                   ncalls>>
    /\ IF ok
       THEN LET existing == task[t].existing_app_id
                ex == ExistingIds(existing, IF existing # None
                                            THEN GetObjectsResponse(existing)
                                            ELSE EmptyDict)
                id == AcquiredAppId(existing, AppId(n_apps + 1))
            IN  /\ tag_to_existing_id' = ex
                /\ app_id' = id
                /\ n_apps' = IF existing # None THEN n_apps ELSE n_apps + 1
                /\ progress' = "Tree"
                /\ CreateFrom(t, [task[t] EXCEPT !.tags = CreationOrder(Tags(blueprint))], 1,
                              tag_to_object, ex, id)
                /\ UNCHANGED <<state, client, result>>
       ELSE /\ FinallyReset
            /\ Return(t, "RpcError")
            /\ UNCHANGED <<app_id, tag_to_existing_id, n_apps>>

\* AppIncludeObject answers for the cross-app reference tags[i]
IncludeResponse(t, how) ==
    /\ UNCHANGED cap_vars
    /\ pc[t] = "include"
    /\ UNCHANGED <<state, client, app_id, deployment_name, name_, tag_to_existing_id,
                   progress, blueprint, srv_vars, result, ncalls>>
    /\ LET tag == task[t].tags[task[t].i]
           obj == GetObject(blueprint, tag)
           object_id == IncludeObjectResponse(obj.app_name, obj.object_label,
                                              obj.namespace, how)
           tk == [task[t] EXCEPT !.returned = Put(@, tag, object_id)]
       IN  IF how = "error"
           THEN /\ Disconnect(t, task[t], app_id, "RpcError")
                /\ UNCHANGED tag_to_object
           ELSE IF IncludeCheck(object_id) = None
           THEN CreateFrom(t, tk, task[t].i + 1, Put(tag_to_object, tag, object_id),
                           tag_to_existing_id, app_id)
           ELSE /\ Disconnect(t, tk, app_id, IncludeCheck(object_id))
                /\ UNCHANGED tag_to_object

\* obj.load answers for tags[i]
LoadResponse(t, how) ==
    /\ UNCHANGED cap_vars
    /\ pc[t] = "load"
    /\ UNCHANGED <<state, client, app_id, deployment_name, name_, tag_to_existing_id,
                   progress, blueprint, n_apps, deployed_apps, app_objects, result, ncalls>>
    /\ LET tag == task[t].tags[task[t].i]
           existing_object_id == Get(tag_to_existing_id, tag)
           object_id == CreateObjectResponse(GetObject(blueprint, tag), existing_object_id, how)
           tk == [task[t] EXCEPT !.returned = Put(@, tag, object_id)]
       IN  IF how = "error"
           THEN /\ Disconnect(t, task[t], app_id, "RpcError")
                /\ UNCHANGED <<tag_to_object, n_objects>>
           ELSE /\ n_objects' = IF object_id = FreshId(GetObject(blueprint, tag).kind, n_objects + 1)
                                THEN n_objects + 1 ELSE n_objects
                /\ IF LoadCheck(existing_object_id, object_id) = None
                   THEN CreateFrom(t, tk, task[t].i + 1,
                                   Put(tag_to_object, tag, object_id),
                                   tag_to_existing_id, app_id)
                   ELSE /\ Disconnect(t, tk, app_id,
                                      LoadCheck(existing_object_id, object_id))
                        /\ UNCHANGED tag_to_object

\* AppSetObjects answers; the App is RUNNING and the caller's body is entered
\* (deploy's body is the AppDeploy request)
SetObjectsResponse(t, ok) ==
    /\ UNCHANGED cap_vars
    /\ pc[t] = "set_objects"
    /\ UNCHANGED <<client, app_id, deployment_name, name_, tag_to_object,
                   tag_to_existing_id, progress, blueprint, n_apps, n_objects,
                   deployed_apps, result, ncalls>>
    /\ IF ok
       THEN /\ app_objects' = Put(app_objects, app_id, Last(requests[t]).object_ids)
            /\ state' = RUNNING
            /\ IF task[t].op = "deploy"
               THEN /\ Send(t, Request("AppDeploy", app_id, task[t].name,
                                       task[t].namespace, EmptyDict))
                    /\ pc' = [pc EXCEPT ![t] = "app_deploy"]
                    /\ UNCHANGED task
               ELSE /\ pc' = [pc EXCEPT ![t] = "body"]
                    /\ UNCHANGED <<task, requests>>
       ELSE /\ Disconnect(t, task[t], app_id, "RpcError")
            /\ UNCHANGED <<state, app_objects>>

\* Faulty variant: the state is set to STOPPING however the body left
StateAfterBodyAlways(s, exc) == STOPPING

\* _run: `self.state = AppState.STOPPING` follows the yield and is skipped
\* by an exception thrown in at the yield
StateAfterBody(s, exc) == IF exc = None THEN STOPPING ELSE s

\* the caller's body under run leaves: it returns, raises or is cancelled
BodyExit(t, how) ==
    /\ UNCHANGED cap_vars
    /\ pc[t] = "body"
    /\ UNCHANGED <<client, app_id, deployment_name, name_, tag_to_object,
                   tag_to_existing_id, progress, blueprint, srv_vars, result, ncalls>>
    /\ state' = StateAfterBody(state, CASE how = "return" -> None
                                         [] how = "raise" -> "Exception(body)"
                                         [] OTHER -> "CancelledError")
    /\ Disconnect(t, task[t], app_id,
                  CASE how = "return" -> None
                    [] how = "raise" -> "Exception(body)"
                    [] OTHER -> "CancelledError")

\* AppDeploy answers
DeployResponse(t, ok) ==
    /\ UNCHANGED cap_vars
    /\ pc[t] = "app_deploy"
    /\ UNCHANGED <<client, app_id, deployment_name, name_, tag_to_object,
                   tag_to_existing_id, progress, blueprint, n_apps, n_objects,
                   app_objects, result, ncalls>>
    /\ deployed_apps' = IF ok
                        THEN Put(deployed_apps, <<task[t].name, task[t].namespace>>,
                                 Last(requests[t]).app_id)
                        ELSE deployed_apps
    /\ state' = StateAfterBody(state, IF ok THEN None ELSE "RpcError")
    /\ Disconnect(t, task[t], app_id, IF ok THEN None ELSE "RpcError")

\* Faulty variant: deploy returns the name it deployed under
DeployReturnName(t) == task[t].name

\* deploy: return self._app_id
DeployReturn(t) == app_id

\* AppClientDisconnect answers or fails; the inner finally is left and the
\* exit of `async with TaskContext` is awaited, which waits for the log
\* task: the App keeps its state, client and live objects meanwhile
DisconnectResponse(t, ok) ==
    /\ UNCHANGED cap_vars
    /\ pc[t] = "disconnect"
    /\ UNCHANGED <<app_vars, srv_vars, ncalls, result, requests>>
    /\ pc' = [pc EXCEPT ![t] = "context_exit"]
    /\ task' = [task EXCEPT ![t] = [@ EXCEPT !.exc = IF ok THEN @ ELSE "RpcError"]]

\* the TaskContext is left; the outer finally resets the App and control
\* returns to the caller, of deploy with the application identity
TaskContextExit(t) ==
    /\ UNCHANGED cap_vars
    /\ pc[t] = "context_exit"
    /\ UNCHANGED <<app_id, deployment_name, name_, tag_to_existing_id, blueprint,
                   srv_vars, ncalls>>
    /\ FinallyReset
    /\ Return(t, IF task[t].exc # None THEN task[t].exc
                  ELSE IF task[t].op = "deploy" THEN DeployReturn(t) ELSE "ok")

\* _include called for the caller (by lookup or include) up to its await:
\* without a client the request cannot be issued
IncludeFrom(t, r, branch) ==
    LET tk == [task[t] EXCEPT !.lookups = @ + 1, !.ref = r, !.branch = branch,
                              !.response = None]
    IN  IF client = None
        THEN /\ result' = <<t, "AttributeError">>
             /\ task' = [task EXCEPT ![t] = tk]
             /\ UNCHANGED <<pc, requests>>
        ELSE /\ Send(t, Request("AppIncludeObject", app_id, r, None, EmptyDict))
             /\ pc' = [pc EXCEPT ![t] = "lookup_include"]
             /\ task' = [task EXCEPT ![t] = tk]
             /\ result' = <<>>

\* lookup(obj), called by the caller before a run or in the body of its run
CallLookup(t, r) ==
    /\ UNCHANGED cap_vars
    /\ pc[t] \in {"idle", "body"}
    /\ task[t].lookups < MaxLookups
    /\ UNCHANGED <<app_vars, srv_vars, ncalls>>
    /\ LET ref == References[r]
       IN  IF LookupCheck(ref) # None
           THEN /\ result' = <<t, LookupCheck(ref)>>
                /\ task' = [task EXCEPT ![t] = [@ EXCEPT !.lookups = @ + 1, !.ref = r,
                                                         !.branch = "rejected"]]
                /\ UNCHANGED <<pc, requests>>
           ELSE IF CrossApp(ref)
           THEN IncludeFrom(t, r, "lookup")
           ELSE /\ result' = <<t, IF LookupFound(tag_to_object, ref.object_label)
                                   THEN tag_to_object[ref.object_label]
                                   ELSE "KeyError">>
                /\ task' = [task EXCEPT ![t] = [@ EXCEPT !.lookups = @ + 1, !.ref = r,
                                                         !.branch = "same-app"]]
                /\ UNCHANGED <<pc, requests>>

\* include(name, object_label, namespace), called like lookup
CallInclude(t, r) ==
    /\ UNCHANGED cap_vars
    /\ pc[t] \in {"idle", "body"}
    /\ task[t].lookups < MaxLookups
    /\ UNCHANGED <<app_vars, srv_vars, ncalls>>
    /\ IncludeFrom(t, r, "include")

\* AppIncludeObject answers the caller's lookup or include
LookupIncludeResponse(t, how) ==
    /\ UNCHANGED cap_vars
    /\ pc[t] = "lookup_include"
    /\ UNCHANGED <<app_vars, srv_vars, ncalls, requests>>
    /\ pc' = [pc EXCEPT ![t] = IF task[t].entered THEN "body" ELSE "idle"]
    /\ LET ref == References[task[t].ref]
           object_id == IncludeObjectResponse(ref.app_name, ref.object_label,
                                              ref.namespace, how)
       IN  IF how = "error"
           THEN /\ result' = <<t, "RpcError">>
                /\ UNCHANGED task
           ELSE /\ result' = <<t, IF IncludeCheck(object_id) # None
                                   THEN IncludeCheck(object_id)
                                   ELSE object_id>>
                /\ task' = [task EXCEPT ![t] = [@ EXCEPT !.response = object_id]]

\* Two coroutines that run and deploy an App while the image "img" and the
\* function "fu-g" are set and the function sq is decorated.
Next ==
    \/ \E tag \in {"img", "fu-g"} : Register(tag)
    \/ \E sync_entrypoint \in SyncEntrypoint : RegisterFunction("sq", sync_entrypoint)
    \/ \E t \in Tasks : CallRun(t)
    \/ \E name \in DeployNames, namespace \in Namespaces : CallDeploy(Caller, name, namespace)
    \/ \E t \in Tasks, ok \in BOOLEAN : DeployLookupResponse(t, ok)
    \/ \E t \in Tasks, ok \in BOOLEAN : AcquireResponse(t, ok)
    \/ \E t \in Tasks, how \in {"found", "missing", "error"} : IncludeResponse(t, how)
    \/ \E t \in Tasks, how \in {"keep", "fresh", "null", "error"} : LoadResponse(t, how)
    \/ \E t \in Tasks, ok \in BOOLEAN : SetObjectsResponse(t, ok)
    \/ \E t \in Tasks, how \in {"return", "raise", "cancel"} : BodyExit(t, how)
    \/ \E t \in Tasks, ok \in BOOLEAN : DeployResponse(t, ok)
    \/ \E t \in Tasks, ok \in BOOLEAN : DisconnectResponse(t, ok)
    \/ \E t \in Tasks : TaskContextExit(t)

Spec == Init /\ [][Next]_vars

\* Two coroutines, each of which runs or deploys the App, while the image
\* "img" is set: a call of either kind is made in every state of the App.
NextCalls ==
    \/ Register("img")
    \/ \E t \in Tasks : CallRun(t)
    \/ \E t \in Tasks, name \in DeployNames, namespace \in Namespaces :
          CallDeploy(t, name, namespace)
    \/ \E t \in Tasks, ok \in BOOLEAN : DeployLookupResponse(t, ok)
    \/ \E t \in Tasks, ok \in BOOLEAN : AcquireResponse(t, ok)
    \/ \E t \in Tasks, how \in {"keep", "fresh", "null", "error"} : LoadResponse(t, how)
    \/ \E t \in Tasks, ok \in BOOLEAN : SetObjectsResponse(t, ok)
    \/ \E t \in Tasks, how \in {"return", "raise", "cancel"} : BodyExit(t, how)
    \/ \E t \in Tasks, ok \in BOOLEAN : DeployResponse(t, ok)
    \/ \E t \in Tasks, ok \in BOOLEAN : DisconnectResponse(t, ok)
    \/ \E t \in Tasks : TaskContextExit(t)

SpecCalls == Init /\ [][NextCalls]_vars

\* One caller that runs the App and resolves references before the run and
\* in its body, with the same registrations.
NextLookup ==
    \/ \E tag \in {"img", "fu-g"} : Register(tag)
    \/ \E sync_entrypoint \in SyncEntrypoint : RegisterFunction("sq", sync_entrypoint)
    \/ CallRun(Caller)
    \/ \E ok \in BOOLEAN : AcquireResponse(Caller, ok)
    \/ \E how \in {"found", "missing", "error"} : IncludeResponse(Caller, how)
    \/ \E how \in {"keep", "fresh", "null", "error"} : LoadResponse(Caller, how)
    \/ \E ok \in BOOLEAN : SetObjectsResponse(Caller, ok)
    \/ \E how \in {"return", "raise", "cancel"} : BodyExit(Caller, how)
    \/ \E ok \in BOOLEAN : DisconnectResponse(Caller, ok)
    \/ TaskContextExit(Caller)
    \/ \E r \in DOMAIN References : CallLookup(Caller, r)
    \/ \E r \in IncludeArgs : CallInclude(Caller, r)
    \/ \E how \in {"found", "missing", "error"} : LookupIncludeResponse(Caller, how)

SpecLookup == Init /\ [][NextLookup]_vars

\* An App deployed under a name that an earlier version of the program has
\* deployed already: it had the tag "img", with "fu-g" or without, and each
\* held an image of other contents or a function then.  The registrations
\* are those of Spec.
PriorName == "bar_app"
PriorMaps == UNION {[tags -> {"im-c0", "fu-7"}] : tags \in {{"img"}, {"img", "fu-g"}}}

InitPrior ==
    /\ state = NONE
    /\ client = None
    /\ app_id = None
    /\ deployment_name = None
    /\ name_ = None
    /\ tag_to_object = EmptyDict
    /\ tag_to_existing_id = EmptyDict
    /\ progress = None
    /\ blueprint = <<>>
    /\ n_apps = 1
    /\ n_objects = 7
    /\ deployed_apps = [k \in {<<PriorName, NS_ACCOUNT>>} |-> AppId(1)]
    /\ \E prior \in PriorMaps : app_objects = [k \in {AppId(1)} |-> prior]
    /\ pc = [t \in Tasks |-> "idle"]
    /\ task = [t \in Tasks |-> IdleTask]
    /\ result = <<>>
    /\ requests = [t \in Tasks |-> <<>>]
    /\ ncalls = 0
    /\ session = NoSession(FALSE, <<>>)
    /\ worker = NoWorker

NextPrior ==
    \/ \E tag \in {"img", "fu-g"} : Register(tag)
    \/ \E sync_entrypoint \in SyncEntrypoint : RegisterFunction("sq", sync_entrypoint)
    \/ \E name \in DeployNames, namespace \in Namespaces : CallDeploy(Caller, name, namespace)
    \/ \E ok \in BOOLEAN : DeployLookupResponse(Caller, ok)
    \/ \E ok \in BOOLEAN : AcquireResponse(Caller, ok)
    \/ \E how \in {"found", "missing", "error"} : IncludeResponse(Caller, how)
    \/ \E how \in {"keep", "fresh", "null", "error"} : LoadResponse(Caller, how)
    \/ \E ok \in BOOLEAN : SetObjectsResponse(Caller, ok)
    \/ \E ok \in BOOLEAN : DeployResponse(Caller, ok)
    \/ \E ok \in BOOLEAN : DisconnectResponse(Caller, ok)
    \/ TaskContextExit(Caller)

SpecPrior == InitPrior /\ [][NextPrior]_vars

\* An App, with a name or without, some of whose objects were registered
\* before its first call, and one caller: the Blueprints that up to
\* MaxRegistered calls of app[tag] = obj and of function() leave.
MaxRegistered == 3
RECURSIVE RegisteredBy(_)
RegisteredBy(n) ==
    IF n = 0 THEN {<<>>}
    ELSE LET before == RegisteredBy(n - 1)
         IN  before
             \cup {Append(x[1], Entry(x[2], Catalogue[x[2]])) : x \in
                     {x \in before \X SetItemTags :
                         ~HasObject(x[1], x[2]) /\ SetItemCheck(Catalogue[x[2]]) = None}}
             \cup {FunctionRegistered(x[1], x[2], NONE, EmptyDict, x[3]) : x \in
                     {x \in before \X (DOMAIN FunctionCalls) \X SyncEntrypoint :
                         ~HasObject(x[1], x[2])}}
Blueprints == RegisteredBy(MaxRegistered)

InitRegistered ==
    /\ state = NONE
    /\ client = None
    /\ app_id = None
    /\ deployment_name = None
    /\ name_ \in AppNames
    /\ tag_to_object = EmptyDict
    /\ tag_to_existing_id = EmptyDict
    /\ progress = None
    /\ blueprint \in Blueprints
    /\ n_apps = 0
    /\ n_objects = 0
    /\ deployed_apps = EmptyDict
    /\ app_objects = EmptyDict
    /\ pc = [t \in Tasks |-> "idle"]
    /\ task = [t \in Tasks |-> IdleTask]
    /\ result = <<>>
    /\ requests = [t \in Tasks |-> <<>>]
    /\ ncalls = 0
    /\ session = NoSession(FALSE, <<>>)
    /\ worker = NoWorker

NextRegistered ==
    \/ \E tag \in SetItemTags : Register(tag)
    \/ \E f \in DOMAIN FunctionCalls, sync_entrypoint \in SyncEntrypoint :
          RegisterFunction(f, sync_entrypoint)
    \/ CallRun(Caller)
    \/ \E name \in DeployNames, namespace \in Namespaces : CallDeploy(Caller, name, namespace)
    \/ \E ok \in BOOLEAN : DeployLookupResponse(Caller, ok)
    \/ \E ok \in BOOLEAN : AcquireResponse(Caller, ok)
    \/ \E how \in {"found", "missing", "error"} : IncludeResponse(Caller, how)
    \/ \E how \in {"keep", "fresh", "null", "error"} : LoadResponse(Caller, how)
    \/ \E ok \in BOOLEAN : SetObjectsResponse(Caller, ok)
    \/ \E how \in {"return", "raise", "cancel"} : BodyExit(Caller, how)
    \/ \E ok \in BOOLEAN : DeployResponse(Caller, ok)
    \/ \E ok \in BOOLEAN : DisconnectResponse(Caller, ok)
    \/ TaskContextExit(Caller)

SpecRegistered == InitRegistered /\ [][NextRegistered]_vars

\* ------------------------------------------------------- _output_capture
\* Text is a sequence of code points, what travels through the pty or pipe a
\* sequence of bytes.

\* longest text the caller writes in a session
MaxText == 2
\* os.read(read_fd, 50)
ReadSize == 50

LF == 10
CR == 13
\* the code points written: "a", the line terminators, one each that UTF-8
\* encodes in two, three and four bytes (U+00E9, U+20AC, U+1F600), and a
\* surrogate (U+D800), which UTF-8 does not encode
CodePoints == {97, LF, CR, 233, 8364, 55296, 128512}

\* the texts of at most n code points
RECURSIVE TextsUpTo(_)
TextsUpTo(n) ==
    IF n = 0 THEN {<<>>}
    ELSE TextsUpTo(n - 1)
            \cup {Append(s, c) : s \in {x \in TextsUpTo(n - 1) : Len(x) = n - 1},
                                  c \in CodePoints}
Texts == TextsUpTo(MaxText)

Min(a, b) == IF a < b THEN a ELSE b

\* chr(c) is a character: c is in range(0x110000)
IsCodePoint(c) == c >= 0 /\ c <= 1114111

\* U+D800 to U+DFFF
IsSurrogate(c) == c >= 55296 /\ c <= 57343

\* the error of the strict encoder at a code point, or None: chr() raises
\* ValueError for a number that is no code point, the codec raises
\* UnicodeEncodeError for a surrogate ("surrogates not allowed")
EncodeError(c) ==
    IF ~IsCodePoint(c) THEN "ValueError"
    ELSE IF IsSurrogate(c) THEN "UnicodeEncodeError"
    ELSE None

\* the UTF-8 encoding of a code point, or the error raised instead
EncodeCodePoint(c) ==
    IF EncodeError(c) # None THEN EncodeError(c)
    ELSE IF c < 128 THEN <<c>>
    ELSE IF c < 2048 THEN <<192 + (c \div 64), 128 + (c % 64)>>
    ELSE IF c < 65536
    THEN <<224 + (c \div 4096), 128 + ((c \div 64) % 64), 128 + (c % 64)>>
    ELSE <<240 + (c \div 262144), 128 + ((c \div 4096) % 64), 128 + ((c \div 64) % 64),
           128 + (c % 64)>>

\* the stream's encoding of its buffer, which holds what the encoder took
RECURSIVE Encode(_)
Encode(s) == IF s = <<>> THEN <<>> ELSE EncodeCodePoint(Head(s)) \o Encode(Tail(s))

\* a pty's output processing: every \n written goes out as \r\n
RECURSIVE OutputProcessing(_)
OutputProcessing(bytes) ==
    IF bytes = <<>> THEN <<>>
    ELSE (IF Head(bytes) = LF THEN <<CR, LF>> ELSE <<Head(bytes)>>)
            \o OutputProcessing(Tail(bytes))

\* what a write of bytes puts into the pair: a pty on a terminal, else a pipe
Transport(tty, bytes) == IF tty THEN OutputProcessing(bytes) ELSE bytes

\* the bytes a UTF-8 sequence with this lead byte has
SequenceLength(lead) ==
    IF lead < 128 THEN 1 ELSE IF lead < 224 THEN 2 ELSE IF lead < 240 THEN 3 ELSE 4

\* the code point of one complete UTF-8 sequence
DecodeSequence(bytes) ==
    IF Len(bytes) = 1 THEN bytes[1]
    ELSE IF Len(bytes) = 2 THEN (bytes[1] - 192) * 64 + (bytes[2] - 128)
    ELSE IF Len(bytes) = 3
    THEN (bytes[1] - 224) * 4096 + (bytes[2] - 128) * 64 + (bytes[3] - 128)
    ELSE (bytes[1] - 240) * 262144 + (bytes[2] - 128) * 4096 + (bytes[3] - 128) * 64
            + (bytes[4] - 128)

\* a byte that begins a UTF-8 sequence
IsStartByte(b) == b < 128 \/ (b >= 194 /\ b <= 244)

\* the byte b continues, at position i, a sequence with this lead byte (no
\* overlong form, no surrogate, nothing above U+10FFFF)
IsContinuationByte(lead, i, b) ==
    /\ b >= (IF i = 2 /\ lead = 224 THEN 160 ELSE IF i = 2 /\ lead = 240 THEN 144 ELSE 128)
    /\ b <= (IF i = 2 /\ lead = 237 THEN 159 ELSE IF i = 2 /\ lead = 244 THEN 143 ELSE 191)

\* the input is the first two bytes of an encoded surrogate (U+D800 to
\* U+DFFF) and nothing more: the decoder, not at the end of its input
\* (final=False), takes it for an incomplete sequence
TruncatedSurrogate(bytes) ==
    Len(bytes) = 2 /\ bytes[1] = 237 /\ bytes[2] >= 160 /\ bytes[2] <= 191

\* the error of the strict decoder (errors="strict" is the default) at the
\* sequence its input begins with, or None: an invalid start byte, or an
\* invalid continuation byte among those that are there
DecodeError(bytes) ==
    IF ~IsStartByte(bytes[1])
    THEN "UnicodeDecodeError"
    ELSE IF TruncatedSurrogate(bytes)
    THEN None
    ELSE IF \E i \in 2..Min(Len(bytes), SequenceLength(bytes[1])) :
                ~IsContinuationByte(bytes[1], i, bytes[i])
    THEN "UnicodeDecodeError"
    ELSE None

\* Faulty variant: every chunk is decoded by itself, an incomplete sequence
\* at its end becoming the replacement character U+FFFD
RECURSIVE DecodeStateless(_, _)
DecodeStateless(pending, raw) ==
    IF raw = <<>> THEN [data |-> <<>>, pending |-> <<>>, error |-> None]
    ELSE IF raw[1] >= 128 /\ raw[1] < 192
    THEN [data |-> <<65533>> \o DecodeStateless(<<>>, Tail(raw)).data, pending |-> <<>>,
          error |-> None]
    ELSE IF Len(raw) < SequenceLength(raw[1])
    THEN [data |-> <<65533>>, pending |-> <<>>, error |-> None]
    ELSE [data |-> <<DecodeSequence(SubSeq(raw, 1, SequenceLength(raw[1])))>>
                      \o DecodeStateless(<<>>,
                            SubSeq(raw, SequenceLength(raw[1]) + 1, Len(raw))).data,
          pending |-> <<>>, error |-> None]

\* utf_8_decode(bytes, "strict", final=False): the text of the complete
\* sequences, the incomplete one at the end left over, or the error of the
\* first sequence that is not UTF-8
RECURSIVE BufferDecode(_)
BufferDecode(bytes) ==
    IF bytes = <<>> THEN [data |-> <<>>, pending |-> <<>>, error |-> None]
    ELSE IF DecodeError(bytes) # None
    THEN [data |-> <<>>, pending |-> <<>>, error |-> DecodeError(bytes)]
    ELSE IF Len(bytes) < SequenceLength(bytes[1])
    THEN [data |-> <<>>, pending |-> bytes, error |-> None]
    ELSE LET n == SequenceLength(bytes[1])
             more == BufferDecode(SubSeq(bytes, n + 1, Len(bytes)))
         IN  [data |-> <<DecodeSequence(SubSeq(bytes, 1, n))>> \o more.data,
              pending |-> more.pending, error |-> more.error]

\* decoder.decode(raw_data) of the incremental UTF-8 decoder with the bytes
\* it holds back: the text decoded and the bytes held back after it, or
\* the UnicodeDecodeError raised, which leaves the decoder as it was
Decode(pending, raw) ==
    LET decoded == BufferDecode(pending \o raw)
    IN  IF decoded.error # None
        THEN [data |-> <<>>, pending |-> pending, error |-> decoded.error]
        ELSE decoded

\* re.split("(\r\n|\r|\n)", s) read from position i on, the current piece
\* starting at position start: the pieces joined with their separators
\* (lines) and the last piece (rest)
RECURSIVE SplitFrom(_, _, _, _)
SplitFrom(s, i, start, lines) ==
    IF i > Len(s) THEN [lines |-> lines, rest |-> SubSeq(s, start, Len(s))]
    ELSE IF s[i] = CR /\ i < Len(s) /\ s[i + 1] = LF
    THEN SplitFrom(s, i + 2, i + 2, Append(lines, SubSeq(s, start, i + 1)))
    ELSE IF s[i] \in {CR, LF}
    THEN SplitFrom(s, i + 1, i + 1, Append(lines, SubSeq(s, start, i)))
    ELSE SplitFrom(s, i + 1, start, lines)

\* Faulty variant: the text is split at "\n" only
RECURSIVE SplitFromLF(_, _, _, _)
SplitFromLF(s, i, start, lines) ==
    IF i > Len(s) THEN [lines |-> lines, rest |-> SubSeq(s, start, Len(s))]
    ELSE IF s[i] = LF
    THEN SplitFromLF(s, i + 1, i + 1, Append(lines, SubSeq(s, start, i)))
    ELSE SplitFromLF(s, i + 1, start, lines)
SplitLinesAtLF(s) == SplitFromLF(s, 1, 1, <<>>)

\* the complete lines of buf + data and the partial line retained
SplitLines(s) == SplitFrom(s, 1, 1, <<>>)

\* stream.flush() in the session ses: the buffered text goes where the
\* descriptor points
FlushStream(ses) ==
    IF ses.fd_target = "pair"
    THEN [ses EXCEPT !.stream_buf = <<>>,
                     !.pipe = @ \o Transport(ses.isatty, Encode(ses.stream_buf))]
    ELSE [ses EXCEPT !.stream_buf = <<>>, !.orig_out = @ \o ses.stream_buf]

\* thread_capture up to its yield: the descriptor is duplicated, the pair
\* opened, the descriptor pointed at its write end and the worker started
EnterCapture ==
    /\ session.pc = "none"
    /\ session' = [session EXCEPT !.pc = "open", !.fd_target = "pair",
                                  !.write_open = TRUE, !.read_open = TRUE]
    /\ worker' = [worker EXCEPT !.pc = "running", !.buf = <<>>, !.decoder = <<>>]
    /\ UNCHANGED <<app_vars, srv_vars, call_vars>>

\* the caller's scope writes the next code point of its text to the
\* stream, which encodes what it is given: a code point that UTF-8 does not
\* encode makes the write raise, nothing of it is written, and the scope
\* leaves with the error (a scope that catches it goes on as one whose text
\* is without the code point)
Write ==
    /\ session.pc = "open"
    /\ session.written < Len(session.text)
    /\ LET c == session.text[session.written + 1]
       IN  session' = IF EncodeError(c) # None
                      THEN [session EXCEPT !.pc = "exit", !.exc = EncodeError(c)]
                      ELSE [session EXCEPT !.written = @ + 1,
                                           !.stream_buf = Append(@, c)]
    /\ UNCHANGED <<worker, app_vars, srv_vars, call_vars>>

\* the stream flushes its buffer while the scope runs
Flush ==
    /\ session.pc = "open"
    /\ session.stream_buf # <<>>
    /\ session' = FlushStream(session)
    /\ UNCHANGED <<worker, app_vars, srv_vars, call_vars>>

\* the caller's scope leaves, by its end or by an exception
ScopeExit(how) ==
    /\ session.pc = "open"
    /\ session' = [session EXCEPT !.pc = "exit",
                                  !.exc = IF how = "raise" THEN "Exception(scope)" ELSE None]
    /\ UNCHANGED <<worker, app_vars, srv_vars, call_vars>>

\* finally: stream.flush()
TeardownFlush ==
    /\ session.pc = "exit"
    /\ session' = [FlushStream(session) EXCEPT !.pc = "flushed",
                                               !.teardown = Append(@, "flush")]
    /\ UNCHANGED <<worker, app_vars, srv_vars, call_vars>>

\* finally: os.close(write_fd)
TeardownCloseWrite ==
    /\ session.pc = "flushed"
    /\ session' = [session EXCEPT !.pc = "closed", !.write_open = FALSE,
                                  !.teardown = Append(@, "close_write")]
    /\ UNCHANGED <<worker, app_vars, srv_vars, call_vars>>

\* finally: os.dup2(dup_fd, fd)
TeardownRestore ==
    /\ session.pc = "closed"
    /\ session' = [session EXCEPT !.pc = "waiting", !.fd_target = "orig",
                                  !.teardown = Append(@, "restore")]
    /\ UNCHANGED <<worker, app_vars, srv_vars, call_vars>>

\* `except TimeoutError`: asyncio's TimeoutError is the builtin one (Python
\* 3.11), the class of wait_for's timeout and of an OSError with the errno
\* ETIMEDOUT alike
CaughtByWait(exc) == exc = "TimeoutError"

\* finally: await asyncio.wait_for(print_task, 3) ends: the worker has
\* returned, or it has raised and the wait raises its error, or it is still
\* running when the time is up and the TimeoutError is caught; a
\* TimeoutError the worker ended with is caught in the same way
TeardownWait ==
    /\ session.pc = "waiting"
    /\ session' = IF worker.pc = "failed" /\ ~CaughtByWait(worker.exc)
                  THEN [session EXCEPT !.pc = "raised", !.exc = worker.exc,
                                       !.teardown = Append(@, "wait")]
                  ELSE [session EXCEPT !.pc = "waited", !.teardown = Append(@, "wait")]
    /\ UNCHANGED <<worker, app_vars, srv_vars, call_vars>>

\* finally: os.close(read_fd); the session is over
TeardownCloseRead ==
    /\ session.pc = "waited"
    /\ session' = [session EXCEPT !.pc = "done", !.read_open = FALSE,
                                  !.teardown = Append(@, "close_read")]
    /\ UNCHANGED <<worker, app_vars, srv_vars, call_vars>>

\* After os.close(read_fd) the number read_fd is free, and the process may
\* open another file that is given it, whatever the worker is doing: a
\* worker that still reads the number then reads that file.
ForeignData == {<<122, LF>>, <<LF, 237, 160>>, <<237, 160, 128>>}
DescriptorReused(bytes) ==
    /\ session.pc = "done"
    /\ ~session.reused
    /\ session' = [session EXCEPT !.reused = TRUE, !.foreign = bytes]
    /\ UNCHANGED <<worker, app_vars, srv_vars, call_vars>>

\* the bytes a read of read_fd can return: those in the pair, or those of
\* the file that took the number
Readable ==
    IF session.read_open THEN session.pipe
    ELSE IF session.reused THEN session.foreign
    ELSE <<>>

\* capture_thread: os.read returns k bytes; they are decoded and buf + data
\* is split; without a complete line the rest is retained and the next read
\* follows, else the lines wait for the callback.  Bytes that are not UTF-8
\* after those the decoder holds make decoder.decode raise, and the worker
\* ends with the UnicodeDecodeError.
WorkerRead(k) ==
    /\ worker.pc = "running"
    /\ k \in 1..Min(ReadSize, Len(Readable))
    /\ LET raw_data == SubSeq(Readable, 1, k)
           decoded == Decode(worker.decoder, raw_data)
           pieces == SplitLines(worker.buf \o decoded.data)
       IN  worker' = IF decoded.error # None
                     THEN [worker EXCEPT !.pc = "failed",
                                         !.exc = decoded.error,
                                         !.raw = @ \o raw_data,
                                         !.strayed = @ \/ ~session.read_open]
                     ELSE [worker EXCEPT !.decoder = decoded.pending,
                                         !.raw = @ \o raw_data,
                                         !.pending = pieces.lines,
                                         !.rest = pieces.rest,
                                         !.buf = IF pieces.lines = <<>> THEN pieces.rest ELSE @,
                                         !.pc = IF pieces.lines = <<>> THEN "running"
                                                ELSE "calling",
                                         !.split = @ \/ decoded.pending # <<>>,
                                         !.strayed = @ \/ ~session.read_open]
    /\ session' = IF session.read_open
                  THEN [session EXCEPT !.pipe = SubSeq(@, k + 1, Len(@))]
                  ELSE [session EXCEPT !.foreign = SubSeq(@, k + 1, Len(@))]
    /\ UNCHANGED <<app_vars, srv_vars, call_vars>>

\* capture_thread: one call of the callback returns: with the next line of
\* chunks, after the last of which `buf = chunks[-1]` and the next read
\* follow, or with the partial line at the end of the stream, after which
\* the worker returns
WorkerCallback ==
    /\ worker.pc \in {"calling", "flushing"}
    /\ worker' = [worker EXCEPT
          !.calls = Append(@, Head(worker.pending)),
          !.pending = Tail(@),
          !.buf = IF worker.pc = "calling" /\ Len(worker.pending) = 1 THEN worker.rest ELSE @,
          !.pc = IF Len(worker.pending) > 1 THEN @
                 ELSE IF worker.pc = "calling" THEN "running" ELSE "done"]
    /\ UNCHANGED <<session, app_vars, srv_vars, call_vars>>

\* the pair is empty and nothing holds its write end
AtEndOfStream ==
    /\ session.read_open
    /\ session.pipe = <<>>
    /\ ~session.write_open
    /\ session.fd_target = "orig"

\* the file that took the number of read_fd is at its end
AtForeignEnd == ~session.read_open /\ session.reused /\ session.foreign = <<>>

\* capture_thread: `if not raw_data`: the partial line goes to the callback
\* and the worker returns
EndOfStream(w) ==
    IF w.buf # <<>>
    THEN [w EXCEPT !.pc = "flushing", !.pending = <<w.buf>>]
    ELSE [w EXCEPT !.pc = "done"]

\* capture_thread: os.read returns no bytes
WorkerEof ==
    /\ worker.pc = "running"
    /\ AtEndOfStream \/ AtForeignEnd
    /\ worker' = EndOfStream(worker)
    /\ UNCHANGED <<session, app_vars, srv_vars, call_vars>>

\* The errors of os.read: EIO, which the master of a pty gives once its
\* slave is closed; EBADF, of a number that names no open file; and two of
\* the errors that no state of the file explains.
ReadErrors == {"EIO", "EBADF", "ENOMEM", "ETIMEDOUT"}

\* the class of the OSError raised for an errno: OSError itself, or the
\* subclass that the errno selects
ErrorClass(err) == IF err = "ETIMEDOUT" THEN "TimeoutError" ELSE "OSError"

\* Faulty variant: every error of os.read is raised
ReadRaisesAlways(err) == TRUE

\* capture_thread: `except OSError as err`: the error is raised again
ReadRaises(err) == err # "EIO"

\* capture_thread: os.read fails with an OSError; EIO is taken for the end
\* of the stream, any other error leaves the worker.  A read of the number
\* that os.close(read_fd) freed fails with EBADF unless the number was given
\* to another file, whose errors it then meets.
WorkerError(err) ==
    /\ worker.pc = "running"
    /\ CASE err = "EIO" -> (session.isatty /\ AtEndOfStream) \/ AtForeignEnd
         [] err = "EBADF" -> ~session.read_open /\ ~session.reused
         [] OTHER -> session.read_open \/ session.reused
    /\ worker' = IF ReadRaises(err)
                 THEN [worker EXCEPT !.pc = "failed", !.errno = err,
                                         !.exc = ErrorClass(err)]
                 ELSE [EndOfStream(worker) EXCEPT !.errno = err]
    /\ UNCHANGED <<session, app_vars, srv_vars, call_vars>>

\* a capture session on a terminal or not, with the text its caller writes
InitCapture ==
    /\ AppInit
    /\ name_ = None
    /\ \E tty \in BOOLEAN, s \in Texts : session = NoSession(tty, s)
    /\ worker = NoWorker

NextCapture ==
    \/ EnterCapture
    \/ Write
    \/ Flush
    \/ \E how \in {"return", "raise"} : ScopeExit(how)
    \/ TeardownFlush
    \/ TeardownCloseWrite
    \/ TeardownRestore
    \/ TeardownWait
    \/ TeardownCloseRead
    \/ \E bytes \in ForeignData : DescriptorReused(bytes)
    \/ \E k \in 1..ReadSize : WorkerRead(k)
    \/ WorkerCallback
    \/ WorkerEof
    \/ \E err \in ReadErrors : WorkerError(err)

SpecCapture == InitCapture /\ [][NextCapture]_vars

\* The statements of the finally block follow each other without waiting
\* for anything but the bounded wait; a read of the worker returns when the
\* pair holds bytes, when it is at its end, and when the number names no
\* open file; a call of the callback returns.  Nothing obliges the scope to
\* leave, a read to fail otherwise, or the read of another file to return.
TeardownStep ==
    \/ TeardownFlush
    \/ TeardownCloseWrite
    \/ TeardownRestore
    \/ TeardownWait
    \/ TeardownCloseRead
ReadReturns ==
    \/ session.read_open /\ \E k \in 1..ReadSize : WorkerRead(k)
    \/ session.read_open /\ WorkerEof
    \/ session.read_open /\ WorkerError("EIO")
    \/ WorkerError("EBADF")

SpecCaptureFair ==
    SpecCapture /\ WF_vars(TeardownStep) /\ WF_vars(ReadReturns) /\ WF_vars(WorkerCallback)

\* ------------------------------------------------------------- properties
\* the object registered under a tag of the Blueprint
ObjectOf(tag) == GetObject(blueprint, tag)

\* the number of requests of one kind a call has issued
Count(reqs, rpc) == Cardinality({k \in 1..Len(reqs) : reqs[k].rpc = rpc})

\* C1: whenever a call that passed the start check of _run returns to its
\* caller, by a value or by any exception, the App is left in state NONE with
\* no client, no progress tree and no live objects, so that it can be
\* started again.
C1_ResetOnEveryExit ==
    [][\A t \in Tasks :
         (task[t].entered /\ pc'[t] = "idle")
            => /\ state' = NONE
               /\ client' = None
               /\ progress' = None
               /\ tag_to_object' = EmptyDict
               /\ CanStart(state')]_vars

\* a run whose objects were created and whose body was cancelled has returned
C1_Witness ==
    /\ result = <<"t1", "CancelledError">>
    /\ blueprint # <<>>
    /\ state = NONE /\ client = None /\ tag_to_object = EmptyDict

\* C2: while the body of run executes no disconnect has been sent; when the
\* body leaves (return, exception, cancellation) exactly one disconnect is
\* sent, for the application of the run, while the App is not yet reset;
\* the App stays as it is when the disconnect has been answered, and the
\* reset to NONE follows when the task context has been left.
C2_DisconnectOnBodyExit ==
    /\ [](\A t \in Tasks : pc[t] = "body" => Count(requests[t], "AppClientDisconnect") = 0)
    /\ [][\A t \in Tasks :
            (pc[t] = "body" /\ pc'[t] # "body")
               => /\ pc'[t] = "disconnect"
                  /\ Count(requests'[t], "AppClientDisconnect") = 1
                  /\ Last(requests'[t]).rpc = "AppClientDisconnect"
                  /\ Last(requests'[t]).app_id = app_id
                  /\ app_id # None
                  /\ state' \in {RUNNING, STOPPING}]_vars
    /\ [][\A t \in Tasks :
            (pc[t] = "disconnect" /\ task[t].op = "run" /\ state \in {RUNNING, STOPPING}
                /\ pc'[t] # "disconnect")
               => /\ Count(requests'[t], "AppClientDisconnect") = 1
                  /\ pc'[t] = "context_exit"
                  /\ state' = state]_vars
    /\ [][\A t \in Tasks :
            (pc[t] = "context_exit" /\ task[t].op = "run" /\ pc'[t] # "context_exit")
               => /\ Count(requests[t], "AppClientDisconnect") = 1
                  /\ state # NONE
                  /\ state' = NONE]_vars

\* the body of a run raised and the disconnect is on its way
C2_Witness ==
    \E t \in Tasks :
        /\ pc[t] = "disconnect"
        /\ task[t].exc = "Exception(body)"
        /\ state = RUNNING
        /\ Count(requests[t], "AppClientDisconnect") = 1

\* C3: a run or deploy called while the App is not in state NONE raises a
\* usage error, sends nothing and changes neither the App nor the backend.
C3_CallWhileActiveRejected ==
    [][(ncalls' # ncalls /\ state # NONE)
          => /\ Len(result') = 2
             /\ result'[2] \in {"Exception(start)", "InvalidError"}
             /\ requests' = requests
             /\ pc' = pc
             /\ UNCHANGED <<state, client, app_id, deployment_name, tag_to_object,
                            tag_to_existing_id, progress>>
             /\ UNCHANGED srv_vars]_vars

\* a deploy was refused while the run of the other task was stopping
C3_Witness ==
    /\ result = <<"t2", "InvalidError">>
    /\ state = STOPPING
    /\ pc["t1"] = "disconnect"
    /\ task["t1"].op = "run"
    /\ pc["t1"] = "disconnect"

\* the tags _create_all_objects of task t read from the Blueprint
RunTags(t) == {task[t].tags[k] : k \in 1..Len(task[t].tags)}

\* the creation of tags[i] of task t has begun: its request is awaited, or
\* it has raised and the run is on its way out
Creating(t) ==
    /\ pc[t] \in {"include", "load", "disconnect", "context_exit"}
    /\ task[t].i \in 1..Len(task[t].tags)

\* C4: when the creation of a function begins, every object that the run
\* read from the Blueprint and that is not a function has been created.
C4_NonFunctionsFirst ==
    \A t \in Tasks :
        (Creating(t) /\ ObjectOf(task[t].tags[task[t].i]).kind = "function")
           => \A tag \in RunTags(t) :
                 ObjectOf(tag).kind # "function" => tag \in DOMAIN tag_to_object

\* C5: when the creation of a function resolves a same-app reference to a
\* tag the run read from the Blueprint, that tag has a live object.
C5_SameAppLookupFinds ==
    \A t \in Tasks :
        (Creating(t) /\ ObjectOf(task[t].tags[task[t].i]).kind = "function")
           => \A d \in ObjectOf(task[t].tags[task[t].i]).deps \cap RunTags(t) :
                 LookupFound(tag_to_object, d)

\* the CreateObject requests among reqs
CreateRequests(reqs) == {reqs[k] : k \in {j \in 1..Len(reqs) : reqs[j].rpc = "CreateObject"}}

\* the identities the deployed applications hold for a tag
DeployedIds(tag) ==
    {app_objects[deployed_apps[k]][tag] :
        k \in {d \in DOMAIN deployed_apps :
                 /\ deployed_apps[d] \in DOMAIN app_objects
                 /\ tag \in DOMAIN app_objects[deployed_apps[d]]}}
DeployedApps == {deployed_apps[k] : k \in DOMAIN deployed_apps}

\* task t is a deploy about to publish its object map
Publishing(t) == pc[t] = "set_objects" /\ task[t].op = "deploy"

\* C6: a deploy that finds a deployment under its name and namespace whose
\* published map has the tags of the Blueprint keeps the application
\* identity, requests no new one, creates every object with its published
\* identity and publishes the same map again.
C6_RedeployKeepsIdentities ==
    \A t \in Tasks :
        (/\ Publishing(t)
         /\ task[t].existing_app_id # None
         /\ DOMAIN GetObjectsResponse(task[t].existing_app_id) = BlueprintTags)
           => /\ app_id = task[t].existing_app_id
              /\ Last(requests[t]).app_id = task[t].existing_app_id
              /\ Last(requests[t]).object_ids = GetObjectsResponse(task[t].existing_app_id)
              /\ Count(requests[t], "AppCreate") = 0
              /\ \A r \in CreateRequests(requests[t]) :
                    r.object_id = GetObjectsResponse(task[t].existing_app_id)[r.tag]

\* a function and an image are deployed again under the same name
C6_Witness ==
    \E t \in Tasks :
        /\ Publishing(t)
        /\ task[t].existing_app_id # None
        /\ BlueprintTags = {"img", "fu-g"}
        /\ DOMAIN GetObjectsResponse(task[t].existing_app_id) = BlueprintTags
        /\ Last(requests[t]).object_ids = GetObjectsResponse(task[t].existing_app_id)

\* C7 as claimed: a deploy under a name without a deployment, made when
\* another name is deployed, gets an application identity and, for every
\* tag, an object identity that no deployment holds, and passes no existing
\* identity to a creation.
C7_NewNameAllNew ==
    \A t \in Tasks :
        (Publishing(t) /\ task[t].existing_app_id = None /\ DeployedApps # {})
           => /\ app_id \notin DeployedApps
              /\ \A r \in CreateRequests(requests[t]) : r.object_id = None
              /\ \A tag \in DOMAIN Last(requests[t]).object_ids :
                    Last(requests[t]).object_ids[tag] \notin DeployedIds(tag)

\* C7 as amended: the same, with new object identities for the tags of
\* functions and mounts (identity-stable objects); the tag of an image has
\* the identity derived from its contents again, and that of a cross-app
\* reference the identity of the same published object.
C7_NewNameNewStableIdentities ==
    \A t \in Tasks :
        (Publishing(t) /\ task[t].existing_app_id = None /\ DeployedApps # {})
           => /\ app_id \notin DeployedApps
              /\ \A r \in CreateRequests(requests[t]) : r.object_id = None
              /\ \A tag \in DOMAIN Last(requests[t]).object_ids :
                    IF ObjectOf(tag).kind \in {"image", "ref"}
                    THEN DeployedIds(tag) \subseteq {Last(requests[t]).object_ids[tag]}
                    ELSE Last(requests[t]).object_ids[tag] \notin DeployedIds(tag)

\* an image, a reference to the client mount, a mount and a function,
\* deployed under one name, are deployed under another
C7_Witness ==
    \E t \in Tasks :
        /\ Publishing(t)
        /\ task[t].existing_app_id = None
        /\ DOMAIN Last(requests[t]).object_ids = {"img", "_client_mount", "pkg", "sq"}
        /\ ObjectOf("_client_mount").kind = "ref"
        /\ \A tag \in DOMAIN Last(requests[t]).object_ids : DeployedIds(tag) # {}

\* C8 as claimed: a deploy that finds a deployment under its name publishes
\* exactly the tags of the Blueprint, each tag of the found deployment with
\* the identity it had, and creates with no existing identity exactly the
\* tags the found deployment did not have.
C8_RedeployKeepsCommonTags ==
    \A t \in Tasks :
        (Publishing(t) /\ task[t].existing_app_id # None)
           => LET prior == GetObjectsResponse(task[t].existing_app_id)
                  published == Last(requests[t]).object_ids
              IN  /\ DOMAIN published = BlueprintTags
                  /\ \A tag \in BlueprintTags \cap DOMAIN prior : published[tag] = prior[tag]
                  /\ \A r \in CreateRequests(requests[t]) :
                        (r.object_id = None) <=> (r.tag \notin DOMAIN prior)
                  /\ \A tag \in BlueprintTags \ DOMAIN prior :
                        ObjectOf(tag).kind = "function"
                           => \A other \in DOMAIN prior : published[tag] # prior[other]

\* C8 as amended: a deploy that finds a deployment under its name publishes
\* exactly the tags the Blueprint had when its creation phase began; a tag
\* of the found deployment has the identity it had, unless that was the
\* identity of an image ("im-"): then it has the identity its creation
\* returned now, for an image that of its contents.  Each creation is given
\* the identity the found deployment had for the tag, none for a tag it did
\* not have, and such a tag, if a function or a mount, gets an identity the
\* found deployment did not hold.  A tag registered after the creation
\* phase began is in the Blueprint and not in the map.
C8_RedeployKeepsReadTags ==
    \A t \in Tasks :
        (Publishing(t) /\ task[t].existing_app_id # None)
           => LET prior == GetObjectsResponse(task[t].existing_app_id)
                  published == Last(requests[t]).object_ids
              IN  /\ DOMAIN published = RunTags(t)
                  /\ RunTags(t) \subseteq BlueprintTags
                  /\ \A tag \in RunTags(t) \cap DOMAIN prior :
                        IF StartsWith(prior[tag], "im-")
                        THEN /\ published[tag] = task[t].returned[tag]
                             /\ ObjectOf(tag).kind = "image"
                                   => published[tag] = "im-" \o ObjectOf(tag).content
                        ELSE published[tag] = prior[tag]
                  /\ \A r \in CreateRequests(requests[t]) :
                        r.object_id = Get(prior, r.tag)
                  /\ \A tag \in RunTags(t) \ DOMAIN prior :
                        ObjectOf(tag).kind \in {"function", "mount"}
                           => \A other \in DOMAIN prior : published[tag] # prior[other]

\* a function was added to a deployed Blueprint and the deploy is repeated
C8_Witness ==
    \E t \in Tasks :
        /\ Publishing(t)
        /\ task[t].existing_app_id # None
        /\ GetObjectsResponse(task[t].existing_app_id) = [tag \in {"img"} |-> "im-c0"]
        /\ RunTags(t) = {"img", "fu-g"}
        /\ Last(requests[t]).object_ids["img"] = "im-c1"

\* the call of task t has published its objects and has not returned
Started(t) == pc[t] \in {"body", "app_deploy", "disconnect", "context_exit"} /\ task[t].i > 0

\* C9 as claimed: while the App is RUNNING, every tag of the Blueprint has a
\* live object with the identity its creation returned in this run, and the
\* map published for the application has that identity for the tag.
C9_LiveObjectsAreCreated ==
    state = RUNNING
       => \E t \in Tasks :
             /\ Started(t)
             /\ DOMAIN tag_to_object = BlueprintTags
             /\ \A tag \in BlueprintTags :
                   /\ tag \in DOMAIN task[t].returned
                   /\ task[t].returned[tag] \notin {None, ""}
                   /\ tag_to_object[tag] = task[t].returned[tag]
                   /\ Get(GetObjectsResponse(app_id), tag) = task[t].returned[tag]

\* C9 as amended: while the App is RUNNING, the tags with a live object are
\* the tags the Blueprint had when the creation phase of the run began;
\* each has the identity its creation returned in this run, and the map
\* published for the application has that identity for the tag.
C9_CreatedObjectsAreLive ==
    state = RUNNING
       => \E t \in Tasks :
             /\ Started(t)
             /\ RunTags(t) \subseteq BlueprintTags
             /\ DOMAIN tag_to_object = RunTags(t)
             /\ \A tag \in RunTags(t) :
                   /\ tag \in DOMAIN task[t].returned
                   /\ task[t].returned[tag] \notin {None, ""}
                   /\ tag_to_object[tag] = task[t].returned[tag]
                   /\ Get(GetObjectsResponse(app_id), tag) = task[t].returned[tag]

\* a run of a function registered with function() is RUNNING: its image,
\* the client mount (created by this App), a mount and the function
C9_Witness ==
    /\ state = RUNNING
    /\ pc["t1"] = "body"
    /\ task["t1"].tags = <<"img", "_client_mount", "pkg", "sq">>
    /\ GetObject(blueprint, "_client_mount").kind = "mount"
    /\ DOMAIN tag_to_object = {"img", "_client_mount", "pkg", "sq"}

\* C10: a deploy in progress is made under the name argument when one was
\* given and under the configured name when none was given; without either
\* no deploy gets past the name check.
C10_DeploymentName ==
    \A t \in Tasks :
        task[t].op = "deploy"
           => /\ task[t].name_arg # None => task[t].name = task[t].name_arg
              /\ (task[t].name_arg = None /\ name_ # None) => task[t].name = name_
              /\ ~(task[t].name_arg = None /\ name_ = None)
              /\ \A k \in 1..Len(requests[t]) :
                    requests[t][k].rpc \in {"AppGetByDeploymentName", "AppDeploy"}
                       => requests[t][k].tag = task[t].name

\* task t has just called lookup or include
Resolving(t) == task[t].lookups' = task[t].lookups + 1

\* C11: a lookup of a reference that has neither an app name nor an object
\* label raises InvalidError; it issues no request, takes neither the
\* cross-app branch nor the same-app branch that reads the live objects,
\* and leaves the App as it was.
C11_MalformedReferenceRejected ==
    [][\A t \in Tasks :
          (/\ Resolving(t)
           /\ task[t].branch' # "include"
           /\ References[task[t].ref'].app_name = None
           /\ References[task[t].ref'].object_label = None)
             => /\ result' = <<t, "InvalidError">>
                /\ task[t].branch' = "rejected"
                /\ requests' = requests
                /\ pc' = pc
                /\ UNCHANGED app_vars]_vars

\* the body of a run with live objects looked up a reference to nothing
C11_Witness ==
    /\ result = <<"t1", "InvalidError">>
    /\ task["t1"].ref = "nothing"
    /\ pc["t1"] = "body"
    /\ tag_to_object # EmptyDict

\* C12: when AppIncludeObject answers without an identity, a lookup and an
\* include raise NotFoundError and record no live object; a Blueprint entry
\* that is a cross-app reference raises NotFoundError out of its creation,
\* no live object is recorded for its tag, and the run returns the error
\* once the disconnect has been answered.
C12_MissingObjectNotFound ==
    /\ [][\A t \in Tasks :
            (pc[t] = "lookup_include" /\ pc'[t] # "lookup_include"
                /\ task[t].response' = "")
               => /\ result' = <<t, "NotFoundError">>
                  /\ task[t].branch \in {"lookup", "include"}
                  /\ tag_to_object' = tag_to_object]_vars
    /\ [][\A t \in Tasks :
            (pc[t] = "include" /\ pc'[t] # "include"
                /\ Get(task[t].returned', task[t].tags[task[t].i]) = "")
               => /\ pc'[t] = "disconnect"
                  /\ task[t].exc' = "NotFoundError"
                  /\ task[t].tags[task[t].i] \notin DOMAIN tag_to_object']_vars
    /\ [][\A t \in Tasks :
            (pc[t] = "disconnect" /\ pc'[t] = "idle" /\ task[t].exc = "NotFoundError"
                /\ result'[2] # "RpcError")
               => /\ result' = <<t, "NotFoundError">>
                  /\ tag_to_object' = EmptyDict]_vars

\* an include in the body of a run found nothing published
C12_Witness ==
    /\ result = <<"t1", "NotFoundError">>
    /\ task["t1"].branch = "include"
    /\ task["t1"].response = ""
    /\ pc["t1"] = "body"

\* the callback invocations joined
RECURSIVE Concat(_)
Concat(lines) == IF lines = <<>> THEN <<>> ELSE Head(lines) \o Concat(Tail(lines))

IsPrefix(s, u) == Len(s) <= Len(u) /\ SubSeq(u, 1, Len(s)) = s

\* the text a terminal's output processing makes of a text
RECURSIVE Translated(_, _)
Translated(tty, s) ==
    IF s = <<>> THEN <<>>
    ELSE (IF tty /\ Head(s) = LF THEN <<CR, LF>> ELSE <<Head(s)>>)
            \o Translated(tty, Tail(s))

\* one invocation per line of the text with its terminator, and one with
\* the unterminated remainder when there is one
ExpectedCalls(s) ==
    SplitLines(s).lines \o (IF SplitLines(s).rest # <<>> THEN <<SplitLines(s).rest>> ELSE <<>>)

\* C13: when the worker, having read the pair only, has returned at the end
\* of the stream (not on a terminal, where nothing translates the bytes),
\* the callback has been invoked once per line of the text written, in
\* order, and once with the unterminated remainder if there is one, however
\* the reads cut the bytes.
C13_OneCallPerLine ==
    (~session.isatty /\ worker.pc = "done" /\ ~worker.strayed)
       => worker.calls = ExpectedCalls(SubSeq(session.text, 1, session.written))

\* the text the worker has split from its reads and has not yet given to
\* the callback: the lines and the rest of chunks, or the partial line
Held ==
    CASE worker.pc = "calling" -> Concat(worker.pending) \o worker.rest
      [] worker.pc = "flushing" -> Concat(worker.pending)
      [] worker.pc = "done" -> <<>>
      [] OTHER -> worker.buf

\* C14: as long as the worker has read the pair only, the text delivered to
\* the callback, with the text the worker holds, is the beginning of the
\* text written, made of its code points only, and is all of it when the
\* worker has returned: a code point whose bytes two reads cut apart is
\* delivered once and whole and nothing around it is lost or reordered.
C14_SplitCodePointIntact ==
    LET delivered == Concat(worker.calls) \o Held
        sent == Translated(session.isatty, SubSeq(session.text, 1, session.written))
    IN  ~worker.strayed
           => /\ IsPrefix(delivered, sent)
              /\ \A k \in 1..Len(delivered) : delivered[k] \in CodePoints
              /\ worker.pc = "done" => delivered = sent

\* a read ended inside the four bytes of U+1F600, and the worker has
\* delivered the line and the partial line of the text
C14_Witness ==
    /\ worker.split
    /\ worker.pc = "done"
    /\ ~session.isatty
    /\ session.text = <<LF, 128512>>
    /\ worker.calls = << <<LF>>, <<128512>> >>

\* C15: when a capture session is over, by the end of its teardown or by an
\* error raised out of it, the teardown has flushed the stream, closed the
\* write end, restored the descriptor, waited for the worker and closed the
\* read end, in this order; the descriptor is the original one and both
\* ends of the pair are closed.
C15_TeardownOnEveryExit ==
    session.pc \in {"done", "raised"}
       => /\ session.teardown = <<"flush", "close_write", "restore", "wait", "close_read">>
          /\ session.fd_target = "orig"
          /\ ~session.write_open
          /\ ~session.read_open

\* a call of task t that passed the start check of _run returns an error
ReturnsError(t) ==
    /\ task[t].entered
    /\ pc[t] # "idle"
    /\ pc'[t] = "idle"
    /\ result'[2] \in {"RpcError", "NotFoundError", "KeyError", "InvalidError",
                       "Exception(mismatch)", "Exception(None id)"}

\* C16 as claimed: when a started run returns the error of a failed remote
\* call, a disconnect has been sent for it and the App is reset to NONE.
C16_RemoteFailureDisconnects ==
    [][\A t \in Tasks :
          ReturnsError(t)
             => /\ Count(requests[t], "AppClientDisconnect") = 1
                /\ state' = NONE]_vars

\* C16 as amended: every error of a started run reaches the caller with the
\* App reset to NONE; when the creation of an object, the resolution of a
\* cross-app reference or the publication of the object map fails, the
\* disconnect is sent at once and the error is returned after its answer
\* and the exit of the task context;
\* when the acquisition of the application (AppCreate, AppGetObjects)
\* fails, the error is returned without a disconnect.
C16_FailureAfterAcquisitionDisconnects ==
    /\ [][\A t \in Tasks :
            ReturnsError(t)
               => /\ state' = NONE
                  /\ pc[t] \in {"acquire", "context_exit"}
                  /\ pc[t] = "acquire" => Count(requests[t], "AppClientDisconnect") = 0
                  /\ pc[t] = "context_exit"
                        => /\ Count(requests[t], "AppClientDisconnect") = 1
                           /\ Last(requests[t]).rpc = "AppClientDisconnect"]_vars
    /\ [][\A t \in Tasks :
            (pc[t] \in {"include", "load", "set_objects"}
                /\ pc'[t] \notin {"include", "load", "set_objects", "body", "app_deploy"})
               => /\ pc'[t] = "disconnect"
                  /\ task[t].exc' # None
                  /\ Count(requests'[t], "AppClientDisconnect") = 1
                  /\ state' = STARTING]_vars

\* the creation of an object failed at the backend and the disconnect is
\* on its way
C16_Witness ==
    \E t \in Tasks :
        /\ pc[t] = "disconnect"
        /\ task[t].exc = "RpcError"
        /\ state = STARTING
        /\ task[t].i \in 1..Len(task[t].tags)
        /\ ObjectOf(task[t].tags[task[t].i]).kind = "function"
        /\ Last(requests[t]).rpc = "AppClientDisconnect"

\* the creation of tags[i] of task t, made with an existing identity, has
\* just been answered with another identity
Mismatch(t) ==
    /\ pc[t] = "load"
    /\ pc'[t] # "load" \/ task[t].i' # task[t].i
    /\ Get(tag_to_existing_id, task[t].tags[task[t].i]) # None
    /\ task[t].tags[task[t].i] \in DOMAIN task[t].returned'
    /\ task[t].returned'[task[t].tags[task[t].i]]
          \notin {None, Get(tag_to_existing_id, task[t].tags[task[t].i])}

\* C17: when a creation made with an existing identity returns another
\* identity, the run goes on with the returned identity as the live object
\* if the specification created is an image (content-addressed) and aborts
\* with the mismatch error if it is of any other kind, whatever the tag
\* held before.
C17_MismatchToleratedByKind ==
    [][\A t \in Tasks :
          Mismatch(t)
             => LET tag == task[t].tags[task[t].i]
                IN  IF ObjectOf(tag).kind = "image"
                    THEN /\ pc'[t] # "disconnect"
                         /\ Get(tag_to_object', tag) = task[t].returned'[tag]
                    ELSE /\ pc'[t] = "disconnect"
                         /\ task[t].exc' = "Exception(mismatch)"]_vars

\* the positions in reqs of the requests of one kind
Positions(reqs, rpcs) == {k \in 1..Len(reqs) : reqs[k].rpc \in rpcs}

\* the creation of tags[i] of task t has failed and the run is on its way out
CreationFailed(t) ==
    /\ pc[t] \in {"disconnect", "context_exit"}
    /\ task[t].exc # None
    /\ task[t].i \in 1..Len(task[t].tags)

\* C18: a creation that the backend answers without an identity has failed;
\* when a creation has failed, the requests of the run made requests for
\* the tags up to the failing one only, no AppSetObjects and, after the
\* creations, nothing but the disconnect; the App is STARTING, never
\* RUNNING, the backend holds what it held, and the run returns the error
\* to its caller.
C18_CreationFailureAborts ==
    /\ [](\A t \in Tasks :
            (\E tag \in DOMAIN task[t].returned : task[t].returned[tag] \in {None, ""})
               => CreationFailed(t))
    /\ [](\A t \in Tasks :
            CreationFailed(t)
               => /\ \A k \in Positions(requests[t], {"CreateObject", "AppIncludeObject"}) :
                        \E j \in 1..task[t].i : requests[t][k].tag = task[t].tags[j]
                  /\ Count(requests[t], "CreateObject") + Count(requests[t], "AppIncludeObject")
                        <= task[t].i
                  /\ Count(requests[t], "AppSetObjects") = 0
                  /\ \A k \in 1..Len(requests[t]) :
                        requests[t][k].rpc \in {"AppGetByDeploymentName", "AppCreate",
                                                "AppGetObjects", "CreateObject",
                                                "AppIncludeObject", "AppClientDisconnect"}
                  /\ Count(requests[t], "AppClientDisconnect") = 1
                  /\ Last(requests[t]).rpc = "AppClientDisconnect"
                  /\ state = STARTING
                  /\ DOMAIN tag_to_object = {task[t].tags[j] : j \in 1..(task[t].i - 1)})
    /\ [][\A t \in Tasks :
            (CreationFailed(t) /\ pc'[t] \notin {"disconnect", "context_exit"})
               => /\ pc'[t] = "idle"
                  /\ result'[1] = t
                  /\ result'[2] \in {task[t].exc, "RpcError"}
                  /\ state' = NONE
                  /\ UNCHANGED srv_vars]_vars

\* the first of two creations failed
C18_Witness ==
    \E t \in Tasks :
        /\ CreationFailed(t)
        /\ task[t].i = 1
        /\ Len(task[t].tags) = 2
        /\ task[t].exc = "Exception(None id)"

\* C19 as claimed: AppSetObjects is requested once, after every creation and
\* with an identity for every tag of the Blueprint; the App goes from STARTING to
\* RUNNING by its answer only, which has the map published; so whenever the
\* App is RUNNING its application has a published map with one identity per
\* tag of the Blueprint.
C19_PublishedBeforeRunning ==
    /\ [](\A t \in Tasks :
            Count(requests[t], "AppSetObjects") > 0
               => /\ Count(requests[t], "AppSetObjects") = 1
                  /\ \A k \in Positions(requests[t], {"CreateObject", "AppIncludeObject"}),
                        j \in Positions(requests[t], {"AppSetObjects"}) : k < j
                  /\ \A j \in Positions(requests[t], {"AppSetObjects"}) :
                        /\ DOMAIN requests[t][j].object_ids = BlueprintTags
                        /\ \A tag \in BlueprintTags :
                              /\ requests[t][j].object_ids[tag] \notin {None, ""}
                              /\ requests[t][j].object_ids[tag] = Get(task[t].returned, tag))
    /\ [][(state = STARTING /\ state' # STARTING)
            => \/ state' = NONE
               \/ /\ state' = RUNNING
                  /\ \E t \in Tasks :
                        /\ pc[t] = "set_objects"
                        /\ Get(app_objects', app_id) = Last(requests[t]).object_ids]_vars
    /\ [](state = RUNNING
            => /\ app_id \in DOMAIN app_objects
               /\ DOMAIN app_objects[app_id] = BlueprintTags
               /\ \A tag \in BlueprintTags : app_objects[app_id][tag] \notin {None, ""})

\* the creation phase of task t begins in this step
CreationBegins(t) == pc[t] = "acquire" /\ pc'[t] \notin {"acquire", "idle"}

\* C19 as amended: AppSetObjects is requested once, after every creation and
\* with an identity for every tag the Blueprint had when the creation phase
\* began; the App goes from STARTING to RUNNING by its answer only, which
\* has the map published; so whenever the App is RUNNING its application
\* has a published map with one identity per such tag.
C19_PublishedForCreatedTags ==
    /\ [][\A t \in Tasks :
            CreationBegins(t)
               => {task'[t].tags[k] : k \in 1..Len(task'[t].tags)} = BlueprintTags]_vars
    /\ [](\A t \in Tasks :
            Count(requests[t], "AppSetObjects") > 0
               => /\ Count(requests[t], "AppSetObjects") = 1
                  /\ \A k \in Positions(requests[t], {"CreateObject", "AppIncludeObject"}),
                        j \in Positions(requests[t], {"AppSetObjects"}) : k < j
                  /\ \A j \in Positions(requests[t], {"AppSetObjects"}) :
                        /\ DOMAIN requests[t][j].object_ids = RunTags(t)
                        /\ \A tag \in RunTags(t) :
                              /\ requests[t][j].object_ids[tag] \notin {None, ""}
                              /\ requests[t][j].object_ids[tag] = Get(task[t].returned, tag))
    /\ [][(state = STARTING /\ state' # STARTING)
            => \/ state' = NONE
               \/ /\ state' = RUNNING
                  /\ \E t \in Tasks :
                        /\ pc[t] = "set_objects"
                        /\ Get(app_objects', app_id) = Last(requests[t]).object_ids]_vars
    /\ [](state = RUNNING
            => \E t \in Tasks :
                  /\ Started(t)
                  /\ app_id \in DOMAIN app_objects
                  /\ DOMAIN app_objects[app_id] = RunTags(t)
                  /\ \A tag \in RunTags(t) : app_objects[app_id][tag] \notin {None, ""})

\* a run of an image and a function using it is RUNNING
C19_Witness ==
    /\ state = RUNNING
    /\ Tags(blueprint) = <<"img", "_client_mount", "pkg", "sq">>
    /\ app_id \in DOMAIN app_objects
    /\ DOMAIN app_objects[app_id] = {"img", "_client_mount", "pkg", "sq"}

\* C20: a deploy requests AppDeploy once, after its AppSetObjects has been
\* answered and before any disconnect, for its application and under its
\* name and namespace; a deploy whose start failed requests none; after
\* AppDeploy, answered or failed, the disconnect is sent and, once the task
\* context is left, the App reset;
\* the identity a deploy returns is the one bound to its name.
C20_DeployPublishesLast ==
    /\ [](\A t \in Tasks :
            Count(requests[t], "AppDeploy") > 0
               => /\ task[t].op = "deploy"
                  /\ Count(requests[t], "AppDeploy") = 1
                  /\ Count(requests[t], "AppSetObjects") = 1
                  /\ \A k \in Positions(requests[t], {"AppDeploy"}) :
                        /\ \A j \in Positions(requests[t], {"AppSetObjects", "CreateObject",
                                                              "AppIncludeObject"}) : j < k
                        /\ \A j \in Positions(requests[t], {"AppClientDisconnect"}) : k < j
                        /\ requests[t][k].app_id = app_id
                        /\ requests[t][k].tag = task[t].name
                        /\ requests[t][k].object_id = task[t].namespace
                  /\ Get(app_objects, app_id) = ObjectIds(tag_to_object)
                  /\ task[t].i = Len(task[t].tags) + 1)
    /\ [][\A t \in Tasks :
            (pc[t] = "app_deploy" /\ pc'[t] # "app_deploy")
               => /\ pc'[t] = "disconnect"
                  /\ Count(requests'[t], "AppClientDisconnect") = 1
                  /\ Last(requests'[t]).app_id = app_id]_vars
    /\ [][\A t \in Tasks :
            (pc[t] = "context_exit" /\ task[t].op = "deploy" /\ pc'[t] # "context_exit")
               => /\ state' = NONE
                  /\ (result'[2] \notin {"RpcError", task[t].exc})
                        => /\ Count(requests[t], "AppDeploy") = 1
                           /\ result'[2] = app_id
                           /\ Get(deployed_apps, <<task[t].name, task[t].namespace>>)
                                 = result'[2]]_vars

\* AppDeploy failed and the disconnect is on its way
C20_Witness ==
    \E t \in Tasks :
        /\ pc[t] = "disconnect"
        /\ task[t].op = "deploy"
        /\ task[t].exc = "RpcError"
        /\ state = RUNNING
        /\ Last(requests[t]).rpc = "AppClientDisconnect"
        /\ Count(requests[t], "AppDeploy") = 1

\* C21: a creation answered without an identity aborts the run, whatever
\* the kind of the object and whether or not it was created with an
\* existing identity: the run is on its way out with the error of that tag
\* and the tag has no live object; for an image created with an existing
\* identity the error is the one of the missing identity.  (Only the error
\* of a disconnect that fails takes the place of the tag's error.)
C21_NullIdentityFatal ==
    \A t \in Tasks :
        \A tag \in DOMAIN task[t].returned :
            task[t].returned[tag] = None
               => /\ CreationFailed(t)
                  /\ task[t].tags[task[t].i] = tag
                  /\ task[t].exc \in {"Exception(None id)", "Exception(mismatch)", "RpcError"}
                  /\ pc[t] = "disconnect"
                        => /\ task[t].exc # "RpcError"
                           /\ ObjectOf(tag).kind = "image"
                                 => task[t].exc = "Exception(None id)"
                  /\ tag \notin DOMAIN tag_to_object
                  /\ state = STARTING

\* an image deployed before is created with its identity and the backend
\* answers without one
C21_Witness ==
    \E t \in Tasks :
        /\ CreationFailed(t)
        /\ task[t].tags[task[t].i] = "img"
        /\ Get(tag_to_existing_id, "img") = ImageId("c1")
        /\ Get(task[t].returned, "img") = None
        /\ task[t].exc = "Exception(None id)"

\* the place of a registered tag in the Blueprint
RegistrationIndex(tag) == CHOOSE k \in 1..Len(blueprint) : blueprint[k].tag = tag

\* the positions of the creation requests of a run
Creations(reqs) == Positions(reqs, {"CreateObject", "AppIncludeObject"})

\* C22: the creations of a run are sequential, one request per tag: while
\* the i-th creation is awaited the run has made i creation requests, no tag
\* is requested twice, when the objects are published every tag the run read
\* from the Blueprint has been requested, and two functions, or two objects that are
\* not functions, are requested in the order of their registration.
C22_SequentialInRegistrationOrder ==
    \A t \in Tasks :
        /\ pc[t] \in {"include", "load"} => Cardinality(Creations(requests[t])) = task[t].i
        /\ \A k, j \in Creations(requests[t]) :
              /\ requests[t][k].tag \in RunTags(t)
              /\ k # j => requests[t][k].tag # requests[t][j].tag
              /\ (/\ k < j
                  /\ (ObjectOf(requests[t][k].tag).kind = "function")
                       = (ObjectOf(requests[t][j].tag).kind = "function"))
                    => RegistrationIndex(requests[t][k].tag)
                         < RegistrationIndex(requests[t][j].tag)
        /\ pc[t] = "set_objects"
              => RunTags(t) = {requests[t][k].tag : k \in Creations(requests[t])}

\* a read of the worker fails with EIO in this step
ReadFailsEIO == worker.pc = "running" /\ worker' # worker /\ worker'.errno = "EIO"

\* a read of the worker fails with another error in this step
ReadFailsOther ==
    worker.pc = "running" /\ worker' # worker /\ worker'.errno \in ReadErrors \ {"EIO"}

\* the worker returns in this step after the call of the callback with its
\* partial line
PartialLineCall ==
    /\ worker.pc = "flushing"
    /\ worker'.pc = "done"
    /\ worker'.calls = Append(worker.calls, worker.buf)

\* the two ways a failing read is handled: as the end of the stream, where
\* the worker returns, after one call with its partial line if it has one,
\* or by leaving the worker with the error and the partial line
ReadErrorHandling ==
    /\ ReadFailsEIO => /\ worker' = [EndOfStream(worker) EXCEPT !.errno = "EIO"]
                        /\ worker'.calls = worker.calls
                        /\ worker'.pc = IF worker.buf # <<>> THEN "flushing" ELSE "done"
    /\ (worker.pc = "flushing" /\ worker' # worker) => PartialLineCall
    /\ ReadFailsOther => /\ worker'.pc = "failed"
                          /\ worker'.calls = worker.calls
                          /\ worker'.buf = worker.buf

\* C23 as stated: a read failing with EIO ends the worker as the end of the
\* stream does, any other error ends it with the error and without the
\* flush, and a session that is over and whose worker ended with an error
\* has raised that error.
C23_ReadErrorSurfaces ==
    /\ [][ReadErrorHandling]_vars
    /\ []((worker.pc = "failed" /\ session.pc \in {"done", "raised"})
             => (session.pc = "raised" /\ session.exc = "OSError"))

\* C23: a read failing with EIO ends the worker as the end of the stream
\* does, any other error ends it with the error and without the flush; the
\* bounded wait of the teardown raises the error of a worker that has
\* failed by then, unless the error is the timeout error of the errno
\* ETIMEDOUT, after which the teardown goes on as after the expiry of its
\* wait; it raises nothing else, and the error of a worker that fails after
\* the wait timed out reaches nobody.
C23_ReadErrorSurfacesFromWait ==
    /\ [][/\ ReadErrorHandling
          /\ (session.pc = "waiting" /\ session'.pc # "waiting")
                => IF worker.pc = "failed" /\ worker.errno # "ETIMEDOUT"
                   THEN session'.pc = "raised" /\ session'.exc = "OSError"
                   ELSE session'.pc = "waited" /\ session'.exc = session.exc
          /\ session.pc \in {"waited", "done"} => session'.pc \in {"waited", "done"}]_vars
    /\ [](session.pc = "raised"
             => (worker.pc = "failed" /\ worker.errno \notin {"EIO", "ETIMEDOUT"}))

\* on a terminal, the worker has taken EIO for the end of the stream and
\* has flushed the partial line
C23_Witness ==
    /\ worker.pc = "done"
    /\ worker.errno = "EIO"
    /\ worker.buf # <<>>
    /\ Last(worker.calls) = worker.buf
    /\ session.pc = "done"
    /\ session.exc = None

\* teardown has closed the write end and restored the descriptor
Restored == session.pc \in {"waiting", "waited", "raised", "done"}

\* C24: once teardown has closed the write end and restored the
\* descriptor, the worker, unless a read fails for no reason of the file or
\* the read end's number is given to another file, comes to the end of the
\* stream and returns; a teardown whose wait has
\* ended without an error closes the read end; and a worker that runs after
\* the restoration reads a pair that no writer holds.
C24_WorkerSeesEndOfStream ==
    /\ Restored ~> (worker.pc = "done" \/ worker.errno \in {"ENOMEM", "ETIMEDOUT"}
                       \/ session.reused)
    /\ (session.pc = "waited") ~> (session.pc = "done" /\ ~session.read_open)
    /\ []((Restored /\ worker.pc = "running")
             => (~session.write_open /\ session.fd_target = "orig"))

\* what the worker does come to after the restoration: its return or an
\* error, or the read of a file that took the number of the closed read end
WorkerTerminates == Restored ~> (worker.pc \in {"done", "failed"} \/ session.reused)

\* the caller's workload of task t is executing: the body of run, or the
\* AppDeploy request that is the body of deploy
InWorkload(t) == pc[t] \in {"body", "app_deploy"}

\* C25: the state changes from NONE to STARTING, from STARTING to RUNNING,
\* from RUNNING to STOPPING, or to NONE when a call that passed the start
\* check returns; it becomes STOPPING when, and only when, a workload
\* leaves without an exception; and a workload executes in state RUNNING.
C25_StateTransitions ==
    /\ [][/\ state' # state
                => \/ <<state, state'>> \in {<<NONE, STARTING>>, <<STARTING, RUNNING>>,
                                            <<RUNNING, STOPPING>>}
                   \/ /\ state' = NONE
                      /\ \E t \in Tasks : task[t].entered /\ pc[t] # "idle" /\ pc'[t] = "idle"
          /\ \A t \in Tasks :
                (InWorkload(t) /\ pc'[t] # pc[t])
                   => /\ pc'[t] = "disconnect"
                      /\ (state' = STOPPING) = (task'[t].exc = None)
          /\ (state' = STOPPING /\ state # STOPPING)
                => \E t \in Tasks : InWorkload(t) /\ pc'[t] = "disconnect"
                                       /\ task'[t].exc = None]_vars
    /\ [](\A t \in Tasks : InWorkload(t) => state = RUNNING)

\* the AppDeploy of a deploy has succeeded and the App is STOPPING
C25_Witness ==
    \E t \in Tasks :
        /\ state = STOPPING
        /\ pc[t] = "disconnect"
        /\ task[t].op = "deploy"
        /\ task[t].exc = None
        /\ Last(requests[t]).rpc = "AppClientDisconnect"

\* the calls that have passed the start check of _run and not yet returned
PastStartCheck == {t \in Tasks : task[t].entered}

\* task t makes its step towards the start check in this step: it calls
\* run or deploy, or its deployment lookup is answered
TriesToStart(t) ==
    \/ pc[t] = "idle" /\ ncalls' # ncalls /\ \A u \in Tasks \ {t} : pc[u] # "idle"
    \/ pc[t] = "deploy_lookup" /\ pc'[t] # "deploy_lookup"

\* C26: at most one call has passed the start check and not returned; a
\* call that comes to its check while another call is past it, at once or
\* after its deployment lookup, returns an error, has sent no disconnect,
\* and leaves the state, the client, the application identity, the live
\* objects and the other call where they were.
C26_OneCallPastStartCheck ==
    /\ [](Cardinality(PastStartCheck) <= 1)
    /\ [](PastStartCheck # {} => state # NONE)
    /\ [][\A t \in Tasks :
            (TriesToStart(t) /\ PastStartCheck \ {t} # {})
               => /\ pc'[t] = "idle"
                  /\ result' \in {<<t, "Exception(start)">>, <<t, "InvalidError">>,
                                   <<t, "RpcError">>}
                  /\ Count(requests[t], "AppClientDisconnect") = 0
                  /\ UNCHANGED <<state, client, app_id, tag_to_object, progress>>
                  /\ \A u \in Tasks \ {t} :
                        /\ pc'[u] = pc[u]
                        /\ task'[u] = task[u]
                        /\ requests'[u] = requests[u]]_vars

\* the deploy of t1 passed its own test for NONE, was overtaken during its
\* deployment lookup by the run of t2 and has been refused by the start check
C26_Witness ==
    /\ result = <<"t1", "Exception(start)">>
    /\ ncalls = 2
    /\ deployment_name # None
    /\ task["t2"].entered
    /\ task["t2"].op = "run"
    /\ state # NONE
    /\ client = ClientOf("t2")

\* a line that ends with "\r\n", "\r" or "\n" and has no "\r" or "\n" before
TerminatedLine(line) ==
    /\ line # <<>>
    /\ Last(line) \in {CR, LF}
    /\ LET n == Len(line)
           ending == IF n >= 2 /\ line[n - 1] = CR /\ line[n] = LF THEN 2 ELSE 1
       IN  \A k \in 1..(n - ending) : line[k] \notin {CR, LF}

\* the worker has returned at the end of the stream and has flushed a
\* partial line: the last invocation of the callback
PartialLineFlushed == worker.pc = "done" /\ worker.buf # <<>>

\* C27: every string given to the callback is non-empty; each of them but
\* the partial line flushed at the end of the stream is a line with its
\* terminator and no terminator before it; and when the worker has returned
\* at the end of the stream, the strings joined in order are the text that
\* was read, the partial line being the last of them.
C27_CallbackArguments ==
    /\ \A k \in 1..Len(worker.calls) :
          /\ worker.calls[k] # <<>>
          /\ (PartialLineFlushed /\ k = Len(worker.calls)) \/ TerminatedLine(worker.calls[k])
    /\ PartialLineFlushed => Last(worker.calls) = worker.buf
    /\ worker.pc = "done" => Concat(worker.calls) = Decode(<<>>, worker.raw).data

\* on a terminal, a line feed and "a" were read: the line "\r\n" and then
\* the flushed partial line
C27_Witness ==
    /\ worker.pc = "done"
    /\ session.isatty
    /\ session.text = <<LF, 97>>
    /\ worker.calls = << <<CR, LF>>, <<97>> >>
    /\ worker.buf = <<97>>
====
